---- MODULE Spec2Model ----
(***************************************************************************)
(* A model of the xpire Intel 8080 emulator: the CPU core (fetch, dispatch *)
(* and the instruction handlers), the I/O bus with its devices, and the    *)
(* Space Invaders scene's frame loop.                                      *)
(*                                                                         *)
(* The Intel8080 object is the record `cpu`; an instruction handler is an  *)
(* operator from the CPU record before the handler to the record after it, *)
(* named as in the source.  The actions are the operations the host calls: *)
(* execute_instruction, execute_interrupt, Bus.read, Bus.write and the     *)
(* steps of SpaceInvadersScene.update.                                     *)
(***************************************************************************)
EXTENDS Integers, Sequences, FiniteSets, TLC

VARIABLES
    cpu,      \* the Intel8080 object: registers, flags, SP, PC, cycles, ...
    bus,      \* Bus.readers and Bus.writers: port -> handler
    dev,      \* the devices' fields (_value, _offset)
    scene,    \* the position of SpaceInvadersScene.update
    host,     \* what the host does in this run: the opcodes it may inject
    trace,    \* history: the operations executed on the CPU, each with the CPU before and after
    io        \* history: the bus operations and what they returned or raised

vars == <<cpu, bus, dev, scene, host, trace, io>>

-----------------------------------------------------------------------------
(* Python's integer operators on naturals.                                 *)

RECURSIVE BitAnd(_, _)
BitAnd(a, b) ==
    IF a = 0 \/ b = 0 THEN 0
    ELSE (IF a % 2 = 1 /\ b % 2 = 1 THEN 1 ELSE 0) + 2 * BitAnd(a \div 2, b \div 2)

RECURSIVE BitOr(_, _)
BitOr(a, b) ==
    IF a = 0 THEN b
    ELSE IF b = 0 THEN a
    ELSE (IF a % 2 = 1 \/ b % 2 = 1 THEN 1 ELSE 0) + 2 * BitOr(a \div 2, b \div 2)

RECURSIVE BitXor(_, _)
BitXor(a, b) ==
    IF a = 0 THEN b
    ELSE IF b = 0 THEN a
    ELSE (IF (a % 2) # (b % 2) THEN 1 ELSE 0) + 2 * BitXor(a \div 2, b \div 2)

Shl(a, n) == a * (2 ^ n)

Shr(a, n) == a \div (2 ^ n)

Bit(a, n) == Shr(a, n) % 2

-----------------------------------------------------------------------------
(* xpire/utils.py                                                          *)

join_bytes(high_byte, low_byte) == BitOr(Shl(high_byte, 8), low_byte)

split_word(word) == <<BitAnd(Shr(word, 8), \hFF), BitAnd(word, \hFF)>>

reset_value_if_overflow(value, max_size) == BitAnd(value, max_size)

-----------------------------------------------------------------------------
(* The CPU record and its memory.                                          *)

Registers == {"A", "B", "C", "D", "E", "H", "L"}

FlagNames == {"S", "Z", "A", "P", "C"}

\* Memory.max_address(): main.py builds Memory(size=0xFFFF).
max_address == 65535

\* Intel8080.port_1, set once by the constructor.
port_1 == 8

\* CPU.read_memory_byte: the address is masked; a cell never written holds 0.
read_memory_byte(c, addr) ==
    LET a == BitAnd(addr, \hFFFF)
    IN  IF a \in DOMAIN c.memory THEN c.memory[a] ELSE 0

\* CPU.read_memory_word_bytes: the byte at addr first, then the byte at addr + 1.
read_memory_word_bytes(c, addr) ==
    <<read_memory_byte(c, addr), read_memory_byte(c, addr + 1)>>

\* CPU.read_memory_word
read_memory_word(c, addr) ==
    LET w == read_memory_word_bytes(c, addr)
    IN  join_bytes(w[1], w[2])

\* Intel8080.write_memory_byte
write_memory_byte(c, address, value) ==
    LET a == BitAnd(address, \hFFFF)
        v == BitAnd(value, \hFF)
    IN  [c EXCEPT !.memory = (a :> v) @@ c.memory]

\* Intel8080.write_memory_word: the low byte at address, the high byte after it.
write_memory_word(c, address, high_byte, low_byte) ==
    write_memory_byte(write_memory_byte(c, address, low_byte), address + 1, high_byte)

\* decorators.increment_program_counter: no mask is applied.
increment_program_counter(c) == [c EXCEPT !.PC = c.PC + 1]

\* CPU.fetch_byte: the byte at PC, and the CPU with PC advanced.
fetch_byte(c) ==
    [value |-> read_memory_byte(c, c.PC), cpu |-> increment_program_counter(c)]

\* CPU.fetch_word: low byte first, then the high byte.
fetch_word(c) ==
    LET lo == fetch_byte(c)
        hi == fetch_byte(lo.cpu)
    IN  [value |-> join_bytes(hi.value, lo.value), cpu |-> hi.cpu]

\* CPU.decrement_stack_pointer
decrement_stack_pointer(c) ==
    LET new_value == c.SP - 2
        wrapped   == IF new_value < 0 THEN \hFFFF + new_value + 1 ELSE new_value
    IN  [c EXCEPT !.SP = BitAnd(wrapped, \hFFFF)]

\* decorators.increment_stack_pointer, applied after the decorated function.
increment_stack_pointer(c) ==
    [c EXCEPT !.SP = reset_value_if_overflow(c.SP + 2, max_address)]

\* Intel8080._push
_push(c, high_byte, low_byte) ==
    LET c1 == decrement_stack_pointer(c)
    IN  write_memory_word(c1, c1.SP, high_byte, low_byte)

\* Intel8080._pop: the pair read at SP, and the CPU with SP advanced by two.
_pop(c) ==
    [value |-> read_memory_word_bytes(c, c.SP), cpu |-> increment_stack_pointer(c)]

AddCycles(c, n) == [c EXCEPT !.cycles = c.cycles + n]

-----------------------------------------------------------------------------
(* The flags object.  Its class is not among the sources; the byte layout  *)
(* is the documented one: S Z 0 A 0 P 1 C, bit 7 first.                    *)

B2N(b) == IF b THEN 1 ELSE 0

\* Flags.get_flags
get_flags(f) ==
    Shl(B2N(f.S), 7) + Shl(B2N(f.Z), 6) + Shl(B2N(f.A), 4) + Shl(B2N(f.P), 2)
        + 2 + B2N(f.C)

\* Flags.set_flags
set_flags_byte(flags_byte) ==
    [S |-> Bit(flags_byte, 7) = 1, Z |-> Bit(flags_byte, 6) = 1,
     A |-> Bit(flags_byte, 4) = 1, P |-> Bit(flags_byte, 2) = 1,
     C |-> Bit(flags_byte, 0) = 1]

RECURSIVE CountOnes(_)
CountOnes(n) == IF n = 0 THEN 0 ELSE (n % 2) + CountOnes(n \div 2)

\* Intel8080.check_parity
check_parity(value, mask) == CountOnes(BitAnd(value, mask)) % 2 = 0

\* Intel8080.set_flags: Z, S and P from the value.
set_flags(c, value) ==
    [c EXCEPT !.flags.Z = (value = 0),
              !.flags.S = (BitAnd(value, \h80) # 0),
              !.flags.P = check_parity(value, \hFF)]

\* Intel8080.set_carry_flag
set_carry_flag(c, value, mask) == [c EXCEPT !.flags.C = (value > mask \/ value < 0)]

\* Intel8080.set_aux_carry_flag
set_aux_carry_flag(c, a, b) ==
    [c EXCEPT !.flags.A = (BitAnd(a, \h0F) + BitAnd(b, \h0F) > \h0F)]

-----------------------------------------------------------------------------
(* Instruction handlers of Intel8080 (and of CPU for 0x00 and 0x76).       *)

\* CPU._no_operation
_no_operation(c) == c

\* CPU._system_halt: raises SystemHalt.
_system_halt(c) == [c EXCEPT !.exception = "SystemHalt"]

lxi_reg_d16(c, h, l) ==
    LET f1 == fetch_byte(c)
        c1 == [f1.cpu EXCEPT !.registers[l] = f1.value]
        f2 == fetch_byte(c1)
        c2 == [f2.cpu EXCEPT !.registers[h] = f2.value]
    IN  AddCycles(c2, 10)

lxi_sp_d16(c) ==
    LET f == fetch_word(c)
    IN  AddCycles([f.cpu EXCEPT !.SP = f.value], 10)

\* inr_reg also setting the carry out of bit 7.
inr_reg_setting_carry(c, register) ==
    LET value     == c.registers[register]
        result    == value + 1
        new_value == BitAnd(result, \hFF)
        c1 == [c EXCEPT !.registers[register] = new_value]
        c2 == set_flags(c1, new_value)
        c3 == set_aux_carry_flag(c2, value, 1)
    IN  AddCycles(set_carry_flag(c3, result, \hFF), 5)

inr_reg(c, register) ==
    LET value     == c.registers[register]
        result    == value + 1
        new_value == BitAnd(result, \hFF)
        c1 == [c EXCEPT !.registers[register] = new_value]
        c2 == set_flags(c1, new_value)
        c3 == set_aux_carry_flag(c2, value, 1)
    IN  AddCycles(c3, 5)

mvi_reg(c, register) ==
    LET f == fetch_byte(c)
    IN  AddCycles([f.cpu EXCEPT !.registers[register] = f.value], 7)

set_carry(c) == AddCycles([c EXCEPT !.flags.C = TRUE], 4)

cmc(c) == AddCycles([c EXCEPT !.flags.C = ~c.flags.C], 4)

\* POP B / POP D / POP H
pop(c, h, l) ==
    LET p == _pop(c)
    IN  AddCycles([p.cpu EXCEPT !.registers[h] = p.value[1],
                                !.registers[l] = p.value[2]], 10)

\* PUSH B / PUSH D / PUSH H
push(c, h, l) == AddCycles(_push(c, c.registers[h], c.registers[l]), 11)

jmp_addr(c) ==
    LET f == fetch_word(c)
    IN  AddCycles([f.cpu EXCEPT !.PC = f.value], 10)

ret(c) ==
    LET p == _pop(c)
        h == p.value[1]
        l == p.value[2]
    IN  AddCycles([p.cpu EXCEPT !.PC = BitOr(Shl(h, 8), BitAnd(l, \hFF))], 10)

call_addr(c) ==
    LET f  == fetch_word(c)
        w  == split_word(f.cpu.PC)
        c1 == _push(f.cpu, w[1], w[2])
    IN  AddCycles([c1 EXCEPT !.PC = f.value], 17)

\* The body shared by rst_1 .. rst_6 once interrupts_enabled has been tested.
rst_body(c, target) ==
    LET c1 == [c EXCEPT !.interrupts_enabled = FALSE]
        w  == split_word(c1.PC)
        c2 == _push(c1, w[1], w[2])
    IN  AddCycles([c2 EXCEPT !.PC = target], 11)

rst_1(c) == IF c.interrupts_enabled THEN rst_body(c, \h08) ELSE c

rst_2(c) == IF c.interrupts_enabled THEN rst_body(c, \h10) ELSE c

rst_3(c) == IF c.interrupts_enabled THEN rst_body(c, 8 * 3) ELSE c

rst_4(c) == IF c.interrupts_enabled THEN rst_body(c, \h20) ELSE c

rst_5(c) == IF c.interrupts_enabled THEN rst_body(c, 8 * 5) ELSE c

rst_6(c) == IF c.interrupts_enabled THEN rst_body(c, \h30) ELSE c

\* rst_7 tests `not self.interrupts_enabled`.
rst_7(c) == IF ~c.interrupts_enabled THEN rst_body(c, \h38) ELSE c

\* OUT d8: the port is fetched and the value printed; nothing else.
out_d8(c) ==
    LET f == fetch_byte(c)
    IN  AddCycles(f.cpu, 10)

\* IN d8: only port 1 is answered, from the port_1 attribute.
in_d8(c) ==
    LET f  == fetch_byte(c)
        c1 == IF f.value = 1 THEN [f.cpu EXCEPT !.registers["A"] = port_1] ELSE f.cpu
    IN  AddCycles(c1, 10)

pop_psw(c) ==
    LET p == _pop(c)
    IN  AddCycles([p.cpu EXCEPT !.registers["A"] = p.value[1],
                                !.flags = set_flags_byte(p.value[2])], 10)

push_psw(c) == AddCycles(_push(c, c.registers["A"], get_flags(c.flags)), 11)

di(c) == AddCycles([c EXCEPT !.interrupts_enabled = FALSE], 4)

ei(c) == AddCycles([c EXCEPT !.interrupts_enabled = TRUE], 4)

-----------------------------------------------------------------------------
(* Arithmetic handlers of Intel8080.                                       *)

\* utils.get_ls_nib is imported by intel_8080.py but is not among the sources:
\* the low nibble.
get_ls_nib(value) == BitAnd(value, \h0F)

\* The byte the pair HL addresses.
ReadM(c) == read_memory_byte(c, join_bytes(c.registers["H"], c.registers["L"]))

\* add_reg with the carry taken from bit 7 of the sum.
add_reg_carry_from_sign(c, register) ==
    LET value_1 == c.registers["A"]
        value_2 == c.registers[register]
        result  == value_1 + value_2
    IN  AddCycles([c EXCEPT !.flags.S = (BitAnd(result, \h80) # 0),
                            !.flags.Z = (BitAnd(result, \hFF) = 0),
                            !.flags.P = (CountOnes(BitAnd(result, \hFF)) % 2 = 0),
                            !.flags.A = (get_ls_nib(value_1) + get_ls_nib(value_2) > \h0F),
                            !.flags.C = (BitAnd(result, \h80) # 0),
                            !.registers["A"] = BitAnd(result, \hFF)], 4)

\* ADD r
add_reg(c, register) ==
    LET value_1 == c.registers["A"]
        value_2 == c.registers[register]
        result  == value_1 + value_2
    IN  AddCycles([c EXCEPT !.flags.S = (BitAnd(result, \h80) # 0),
                            !.flags.Z = (BitAnd(result, \hFF) = 0),
                            !.flags.P = (CountOnes(BitAnd(result, \hFF)) % 2 = 0),
                            !.flags.A = (get_ls_nib(value_1) + get_ls_nib(value_2) > \h0F),
                            !.flags.C = (result > \hFF),
                            !.registers["A"] = BitAnd(result, \hFF)], 4)

\* ADD M
add_m(c) ==
    LET value1    == c.registers["A"]
        value2    == ReadM(c)
        result    == value1 + value2
        new_value == BitAnd(result, \hFF)
        c1 == [c EXCEPT !.registers["A"] = new_value]
        c2 == set_flags(c1, new_value)
        c3 == set_carry_flag(c2, result, \hFF)
        c4 == set_aux_carry_flag(c3, value1, value2)
    IN  AddCycles(c4, 7)

\* ADI d8
adi_d8(c) ==
    LET f         == fetch_byte(c)
        i_value   == f.value
        a_value   == f.cpu.registers["A"]
        result    == i_value + a_value
        new_value == BitAnd(result, \hFF)
        c1 == [f.cpu EXCEPT !.registers["A"] = new_value]
        c2 == set_flags(c1, new_value)
        c3 == set_carry_flag(c2, result, \hFF)
        c4 == set_aux_carry_flag(c3, i_value, a_value)
    IN  AddCycles(c4, 7)

\* ADC r
adc_reg(c, register) ==
    LET a_value   == c.registers["A"]
        reg_value == c.registers[register] + (IF c.flags.C THEN 1 ELSE 0)
        result    == a_value + reg_value
    IN  AddCycles([c EXCEPT !.flags.S = (BitAnd(result, \h80) # 0),
                            !.flags.Z = (BitAnd(result, \hFF) = 0),
                            !.flags.P = (CountOnes(BitAnd(result, \hFF)) % 2 = 0),
                            !.flags.A = (get_ls_nib(a_value) + get_ls_nib(reg_value) > \h0F),
                            !.flags.C = (result > \hFF),
                            !.registers["A"] = BitAnd(result, \hFF)], 4)

\* ADC M
adc_m(c) ==
    LET a_value == c.registers["A"]
        value_2 == ReadM(c) + (IF c.flags.C THEN 1 ELSE 0)
        result  == a_value + value_2
    IN  AddCycles([c EXCEPT !.flags.S = (BitAnd(result, \h80) # 0),
                            !.flags.Z = (BitAnd(result, \hFF) = 0),
                            !.flags.P = (CountOnes(BitAnd(result, \hFF)) % 2 = 0),
                            !.flags.A = (get_ls_nib(a_value) + get_ls_nib(value_2) > \h0F),
                            !.flags.C = (result > \hFF),
                            !.registers["A"] = BitAnd(result, \hFF)], 4)

\* ACI d8: the half carry is computed after C has been assigned, so it adds the
\* carry out of the sum.
aci_d8(c) ==
    LET f      == fetch_byte(c)
        value1 == f.cpu.registers["A"]
        value2 == f.value
        result == value1 + value2 + B2N(f.cpu.flags.C)
        new_value == BitAnd(result, \hFF)
        new_C  == result > \hFF
    IN  AddCycles([f.cpu EXCEPT !.registers["A"] = new_value,
                                !.flags.C = new_C,
                                !.flags.Z = (new_value = 0),
                                !.flags.S = (BitAnd(new_value, \h80) # 0),
                                !.flags.P = (CountOnes(BitAnd(result, \hFF)) % 2 = 0),
                                !.flags.A = (get_ls_nib(value1) + get_ls_nib(value2)
                                                + B2N(new_C) > \h0F)], 7)

\* utils.get_twos_complement is imported by intel_8080.py but is not among the
\* sources: -b is represented as (b XOR 0xFF) + 1.
get_twos_complement(value) == BitXor(value, \hFF) + 1

\* SUB r
sub_reg(c, register) ==
    LET a_value   == c.registers["A"]
        reg_value == c.registers[register]
        compl     == get_twos_complement(reg_value)
        result    == a_value + compl
    IN  AddCycles([c EXCEPT !.flags.S = (BitAnd(result, \h80) # 0),
                            !.flags.Z = (BitAnd(result, \hFF) = 0),
                            !.flags.P = (CountOnes(BitAnd(result, \hFF)) % 2 = 0),
                            !.flags.A = (get_ls_nib(a_value) + get_ls_nib(compl) > \h0F),
                            !.flags.C = (result <= \hFF),
                            !.registers["A"] = BitAnd(result, \hFF)], 4)

\* SUB M
sub_m(c) ==
    LET a_value == c.registers["A"]
        value_2 == ReadM(c)
        compl   == get_twos_complement(value_2)
        result  == a_value + compl
    IN  AddCycles([c EXCEPT !.flags.S = (BitAnd(result, \h80) # 0),
                            !.flags.Z = (BitAnd(result, \hFF) = 0),
                            !.flags.P = (CountOnes(BitAnd(result, \hFF)) % 2 = 0),
                            !.flags.A = (get_ls_nib(a_value) + get_ls_nib(compl) > \h0F),
                            !.flags.C = (result <= \hFF),
                            !.registers["A"] = BitAnd(result, \hFF)], 4)

\* SUI d8
sui_d8(c) ==
    LET f         == fetch_byte(c)
        i_value   == f.value
        a_value   == f.cpu.registers["A"]
        result    == a_value - i_value
        new_value == BitAnd(result, \hFF)
        c1 == [f.cpu EXCEPT !.registers["A"] = new_value]
        c2 == set_flags(c1, new_value)
        c3 == set_carry_flag(c2, result, \hFF)
        x  == BitXor(i_value, \hFF) + 1
    IN  AddCycles([c3 EXCEPT !.flags.A = (BitAnd(x, \h0F) + BitAnd(a_value, \h0F) > \h0F)], 7)

\* SBB r
sbb_reg(c, register) ==
    LET a_value   == c.registers["A"]
        reg_value == c.registers[register] + (IF c.flags.C THEN 1 ELSE 0)
        compl     == get_twos_complement(reg_value)
        result    == a_value + compl
    IN  AddCycles([c EXCEPT !.registers["A"] = BitAnd(result, \hFF),
                            !.flags.S = (BitAnd(result, \h80) # 0),
                            !.flags.Z = (BitAnd(result, \hFF) = 0),
                            !.flags.P = (CountOnes(BitAnd(result, \hFF)) % 2 = 0),
                            !.flags.C = (result <= \hFF),
                            !.flags.A = (get_ls_nib(a_value) + get_ls_nib(compl) > \h0F)], 4)

\* SBB M
sbb_m(c) ==
    LET a_value == c.registers["A"]
        value_2 == ReadM(c) + (IF c.flags.C THEN 1 ELSE 0)
        compl   == get_twos_complement(value_2)
        result  == a_value + compl
    IN  AddCycles([c EXCEPT !.registers["A"] = BitAnd(result, \hFF),
                            !.flags.S = (BitAnd(result, \h80) # 0),
                            !.flags.Z = (BitAnd(result, \hFF) = 0),
                            !.flags.P = (CountOnes(BitAnd(result, \hFF)) % 2 = 0),
                            !.flags.C = (result <= \hFF),
                            !.flags.A = (get_ls_nib(a_value) + get_ls_nib(compl) > \h0F)], 4)

\* SBI d8: the immediate plus the carry is masked to a byte before it is subtracted.
sbi_d8(c) ==
    LET f         == fetch_byte(c)
        carry     == IF f.cpu.flags.C THEN 1 ELSE 0
        i_value   == BitAnd(f.value + carry, \hFF)
        a_value   == f.cpu.registers["A"]
        result    == a_value - i_value
        new_value == BitAnd(result, \hFF)
        c1 == [f.cpu EXCEPT !.registers["A"] = new_value]
        c2 == set_flags(c1, new_value)
        c3 == set_carry_flag(c2, result, \hFF)
        x  == BitXor(i_value, \hFF) + 1
    IN  AddCycles([c3 EXCEPT !.flags.A = (BitAnd(x, \h0F) + BitAnd(a_value, \h0F) > \h0F)], 7)

\* Intel8080.compare_with_twos_complement
compare_with_twos_complement(c, v1, v2) ==
    LET compl  == get_twos_complement(v2)
        result == v1 + compl
    IN  [c EXCEPT !.flags.Z = (BitAnd(result, \hFF) = 0),
                  !.flags.S = (BitAnd(result, \h80) # 0),
                  !.flags.A = (get_ls_nib(v1) + get_ls_nib(compl) > \h0F),
                  !.flags.P = (CountOnes(BitAnd(result, \hFF)) % 2 = 0),
                  !.flags.C = (result <= \hFF)]

\* cmp_reg keeping the difference in the accumulator, as SUB does.
cmp_reg_keeping_difference(c, register) ==
    LET a_value   == c.registers["A"]
        reg_value == c.registers[register]
        compl     == get_twos_complement(reg_value)
        result    == a_value + compl
    IN  AddCycles([c EXCEPT !.flags.Z = (BitAnd(result, \hFF) = 0),
                            !.flags.S = (BitAnd(result, \h80) # 0),
                            !.flags.P = (CountOnes(BitAnd(result, \hFF)) % 2 = 0),
                            !.flags.C = (result <= \hFF),
                            !.flags.A = (get_ls_nib(a_value) + get_ls_nib(compl) > \h0F),
                            !.registers["A"] = BitAnd(result, \hFF)], 4)

\* CMP r
cmp_reg(c, register) ==
    LET a_value   == c.registers["A"]
        reg_value == c.registers[register]
        compl     == get_twos_complement(reg_value)
        result    == a_value + compl
    IN  AddCycles([c EXCEPT !.flags.Z = (BitAnd(result, \hFF) = 0),
                            !.flags.S = (BitAnd(result, \h80) # 0),
                            !.flags.P = (CountOnes(BitAnd(result, \hFF)) % 2 = 0),
                            !.flags.C = (result <= \hFF),
                            !.flags.A = (get_ls_nib(a_value) + get_ls_nib(compl) > \h0F)], 4)

\* CMP M
cmp_m(c) == AddCycles(compare_with_twos_complement(c, c.registers["A"], ReadM(c)), 7)

\* CPI d8, registered with the accumulator as its register.
cpi_d8(c, register) ==
    LET f == fetch_byte(c)
    IN  AddCycles(compare_with_twos_complement(f.cpu, c.registers[register], f.value), 7)

\* Intel8080.decrement_byte_value: the flags it sets and the value it returns.
decrement_byte_value(c, value) ==
    LET result == value - 1
    IN  [value |-> result,
         cpu   |-> [c EXCEPT !.flags.S = (BitAnd(result, \h80) # 0),
                             !.flags.Z = (BitAnd(result, \hFF) = 0),
                             !.flags.A = (get_ls_nib(value) = 0),
                             !.flags.P = (CountOnes(BitAnd(result, \hFF)) % 2 = 0)]]

\* DCR r
dcr_reg(c, register) ==
    LET reg_value == c.registers[register]
        result    == reg_value - 1
        new_value == BitAnd(result, \hFF)
        c1 == [c EXCEPT !.registers[register] = new_value]
        c2 == set_flags(c1, new_value)
    IN  AddCycles([c2 EXCEPT !.flags.A = (BitAnd(result, \h0F) - 1 > \h0F)], 5)

\* INR M
inr_m(c) ==
    LET address == join_bytes(c.registers["H"], c.registers["L"])
        m_value == read_memory_byte(c, address)
        result  == m_value + 1
        c1      == write_memory_byte(c, address, result)
    IN  AddCycles([c1 EXCEPT !.flags.S = (BitAnd(result, \h80) # 0),
                             !.flags.Z = (BitAnd(result, \hFF) = 0),
                             !.flags.A = (get_ls_nib(m_value) + 1 > \h0F),
                             !.flags.P = (CountOnes(BitAnd(result, \hFF)) % 2 = 0)], 10)

\* DCR M
dcr_m(c) ==
    LET address == join_bytes(c.registers["H"], c.registers["L"])
        d       == decrement_byte_value(c, read_memory_byte(c, address))
    IN  AddCycles(write_memory_byte(d.cpu, address, d.value), 10)

-----------------------------------------------------------------------------
(* Logical handlers of Intel8080.                                          *)

\* ANA r
ana_reg(c, register) ==
    LET a_value == c.registers["A"]
        value2  == c.registers[register]
        result  == BitAnd(a_value, value2)
    IN  AddCycles([c EXCEPT !.registers["A"] = result,
                            !.flags.S = (BitAnd(result, \h80) # 0),
                            !.flags.Z = (BitAnd(result, \hFF) = 0),
                            !.flags.P = (CountOnes(BitAnd(result, \hFF)) % 2 = 0),
                            !.flags.C = FALSE,
                            !.flags.A = (get_ls_nib(a_value) + get_ls_nib(value2) > \h0F)], 4)

\* ANA M
and_memory_to_accumulator(c) ==
    LET value1 == c.registers["A"]
        value2 == read_memory_byte(c, join_bytes(c.registers["H"], c.registers["L"]))
        result == BitAnd(value1, value2)
        c1 == [c EXCEPT !.registers["A"] = result]
        c2 == set_flags(c1, result)
        c3 == set_aux_carry_flag(c2, value1, value2)
    IN  AddCycles([c3 EXCEPT !.flags.C = FALSE], 7)

\* XRA r
xra(c, register) ==
    LET value1 == c.registers["A"]
        value2 == c.registers[register]
        result == BitXor(value1, value2)
    IN  AddCycles([c EXCEPT !.registers["A"] = result,
                            !.flags.S = (BitAnd(result, \h80) # 0),
                            !.flags.Z = (BitAnd(result, \hFF) = 0),
                            !.flags.P = (CountOnes(BitAnd(result, \hFF)) % 2 = 0),
                            !.flags.C = FALSE], 4)

\* XRA M, registered with the accumulator as r1.
xra_m(c, r1) ==
    LET value1  == c.registers[r1]
        value_2 == ReadM(c)
        result  == BitXor(value1, value_2)
    IN  AddCycles([c EXCEPT !.registers[r1] = result,
                            !.flags.S = (BitAnd(result, \h80) # 0),
                            !.flags.Z = (BitAnd(result, \hFF) = 0),
                            !.flags.P = (CountOnes(BitAnd(result, \hFF)) % 2 = 0),
                            !.flags.A = FALSE,
                            !.flags.C = FALSE], 4)

\* ora_reg leaving the carry flag as it was.
ora_reg_keeping_carry(c, register) ==
    LET result == BitOr(c.registers["A"], c.registers[register])
    IN  AddCycles([c EXCEPT !.registers["A"] = result,
                            !.flags.S = (BitAnd(result, \h80) # 0),
                            !.flags.Z = (BitAnd(result, \hFF) = 0),
                            !.flags.P = (CountOnes(BitAnd(result, \hFF)) % 2 = 0),
                            !.flags.A = FALSE], 4)

\* ORA r
ora_reg(c, register) ==
    LET result == BitOr(c.registers["A"], c.registers[register])
    IN  AddCycles([c EXCEPT !.registers["A"] = result,
                            !.flags.S = (BitAnd(result, \h80) # 0),
                            !.flags.Z = (BitAnd(result, \hFF) = 0),
                            !.flags.P = (CountOnes(BitAnd(result, \hFF)) % 2 = 0),
                            !.flags.C = FALSE,
                            !.flags.A = FALSE], 4)

\* ORA M, registered with the accumulator as its register.
ora_m(c, register) ==
    LET value  == ReadM(c)
        result == BitOr(c.registers[register], value)
        c1 == [c EXCEPT !.registers[register] = result]
        c2 == set_flags(c1, result)
    IN  AddCycles([c2 EXCEPT !.flags.C = FALSE], 7)

\* ANI d8
ani_d8(c) ==
    LET f      == fetch_byte(c)
        value1 == f.cpu.registers["A"]
        value2 == f.value
        result == BitAnd(value1, value2)
        c1 == [f.cpu EXCEPT !.registers["A"] = result]
        c2 == set_flags(c1, result)
        c3 == [c2 EXCEPT !.flags.C = FALSE]
    IN  AddCycles(set_aux_carry_flag(c3, value1, value2), 7)

\* XRI d8
xri_d8(c) ==
    LET f      == fetch_byte(c)
        value1 == f.cpu.registers["A"]
        value2 == f.value
        result == BitXor(value1, value2)
    IN  AddCycles([f.cpu EXCEPT !.registers["A"] = result,
                                !.flags.S = (BitAnd(result, \h80) # 0),
                                !.flags.Z = (BitAnd(result, \hFF) = 0),
                                !.flags.P = (CountOnes(BitAnd(result, \hFF)) % 2 = 0),
                                !.flags.A = FALSE,
                                !.flags.C = FALSE], 7)

\* ORI d8
ori_d8(c) ==
    LET f       == fetch_byte(c)
        i_value == f.value
        a_value == f.cpu.registers["A"]
        result  == BitOr(a_value, i_value)
        c1 == [f.cpu EXCEPT !.registers["A"] = result]
        c2 == set_flags(c1, result)
        c3 == set_carry_flag(c2, result, \hFF)
    IN  AddCycles(set_aux_carry_flag(c3, a_value, i_value), 7)

-----------------------------------------------------------------------------
(* Rotate and decimal-adjust handlers of Intel8080.                        *)

\* RLC
rlc(c) ==
    LET accumulator == BitAnd(c.registers["A"], \hFF)
        new_carry   == BitAnd(accumulator, \h80)
        rotated     == BitAnd(BitOr(Shl(accumulator, 1), Shr(new_carry, 7)), \hFF)
    IN  AddCycles([c EXCEPT !.registers["A"] = rotated,
                            !.flags.C = (new_carry # 0)], 4)

\* RRC
rrc(c) ==
    LET accumulator == BitAnd(c.registers["A"], \hFF)
        new_carry   == BitAnd(accumulator, \h01)
        rotated     == BitAnd(BitOr(Shr(accumulator, 1), Shl(new_carry, 7)), \hFF)
    IN  AddCycles([c EXCEPT !.registers["A"] = rotated,
                            !.flags.C = (new_carry # 0)], 4)

\* RAL: the carry is shifted right by seven before it is or-ed in.
ral(c) ==
    LET carry     == IF c.flags.C THEN 1 ELSE 0
        a_value   == c.registers["A"]
        new_carry == BitAnd(a_value, \h80)
        rotated   == BitAnd(BitOr(Shl(a_value, 1), Shr(carry, 7)), \hFF)
    IN  AddCycles([c EXCEPT !.registers["A"] = rotated,
                            !.flags.C = (new_carry # 0)], 4)

\* RAR
rar(c) ==
    LET carry       == IF c.flags.C THEN 1 ELSE 0
        accumulator == BitAnd(c.registers["A"], \hFF)
        new_carry   == BitAnd(accumulator, \h01)
        rotated     == BitAnd(BitOr(Shr(accumulator, 1), Shl(carry, 7)), \hFF)
    IN  AddCycles([c EXCEPT !.registers["A"] = rotated,
                            !.flags.C = (new_carry # 0)], 4)

\* DAA: no cycles are added.
daa(c) ==
    LET accumulator == c.registers["A"]
        carry       == IF c.flags.C THEN 1 ELSE 0
        half_carry  == IF c.flags.A THEN 1 ELSE 0
        lsb         == BitAnd(accumulator, \h0F)
        low         == half_carry = 1 \/ lsb > 9
        adjusted    == IF low THEN BitAnd(accumulator + \h06, \hFF) ELSE accumulator
        msb         == Shr(adjusted, 4)
        high        == carry = 1 \/ msb > 9
        final       == IF high THEN BitAnd(adjusted + \h60, \hFF) ELSE adjusted
    IN  [c EXCEPT !.flags.A = (IF low THEN lsb + \h06 > \h0F ELSE c.flags.A),
                  !.flags.C = (IF high THEN msb + \h06 > \h0F ELSE FALSE),
                  !.registers["A"] = BitAnd(final, \hFF),
                  !.flags.Z = (BitAnd(final, \hFF) = 0),
                  !.flags.S = (BitAnd(final, \h80) # 0),
                  !.flags.P = (CountOnes(BitAnd(final, \hFF)) % 2 = 0)]

-----------------------------------------------------------------------------
(* Data transfer handlers of Intel8080.                                    *)

\* mov_reg_reg copying towards the register named first.
mov_reg_reg_reversed(c, src, dst) ==
    AddCycles([c EXCEPT !.registers[src] = c.registers[dst]], 5)

\* MOV r1,r2: the decorators name the source first and the destination second.
mov_reg_reg(c, src, dst) ==
    AddCycles([c EXCEPT !.registers[dst] = c.registers[src]], 5)

-----------------------------------------------------------------------------
(* Conditional jump, call and return handlers of Intel8080.  Each handler  *)
(* is its own function in the source; the three shapes they share are     *)
(* written once, with the tested flag and the cycle counts of each handler. *)

\* address = fetch_word(); if tested: PC = address; cycles as the handler adds them.
jump_if(c, tested, cycles_taken, cycles_not_taken) ==
    LET f == fetch_word(c)
    IN  IF tested THEN AddCycles([f.cpu EXCEPT !.PC = f.value], cycles_taken)
        ELSE AddCycles(f.cpu, cycles_not_taken)

\* address = fetch_word(); if tested: push PC, PC = address, 17 cycles; else 11.
call_if(c, tested) ==
    LET f  == fetch_word(c)
        w  == split_word(f.cpu.PC)
        c1 == _push(f.cpu, w[1], w[2])
    IN  IF tested THEN AddCycles([c1 EXCEPT !.PC = f.value], 17)
        ELSE AddCycles(f.cpu, 11)

\* if tested: h, l = _pop(), PC = join_bytes(h, l), 11 cycles; else 5.
return_if(c, tested) ==
    LET p == _pop(c)
    IN  IF tested THEN AddCycles([p.cpu EXCEPT !.PC = join_bytes(p.value[1], p.value[2])], 11)
        ELSE AddCycles(c, 5)

jnz_addr(c) == jump_if(c, ~c.flags.Z, 10, 10)

jz_addr(c) == jump_if(c, c.flags.Z, 10, 10)

jnc_addr(c) == jump_if(c, ~c.flags.C, 10, 10)

jc_addr(c) == jump_if(c, c.flags.C, 10, 10)

\* JPO: jumps when P is set; 17 cycles taken, 11 not.
jpo_addr(c) == jump_if(c, c.flags.P, 17, 11)

\* JPE: 10 cycles taken, 5 not.
jpe_addr(c) == jump_if(c, c.flags.P, 10, 5)

jp_addr(c) == jump_if(c, ~c.flags.S, 10, 10)

jm_addr(c) == jump_if(c, c.flags.S, 10, 10)

cnz_addr(c) == call_if(c, ~c.flags.Z)

cz_addr(c) == call_if(c, c.flags.Z)

cnc_addr(c) == call_if(c, ~c.flags.C)

cc_addr(c) == call_if(c, c.flags.C)

cpo_addr(c) == call_if(c, ~c.flags.P)

cpe_addr(c) == call_if(c, c.flags.P)

cp_addr(c) == call_if(c, ~c.flags.S)

cm_addr(c) == call_if(c, c.flags.S)

rnz(c) == return_if(c, ~c.flags.Z)

rz(c) == return_if(c, c.flags.Z)

rnc(c) == return_if(c, ~c.flags.C)

rc(c) == return_if(c, c.flags.C)

rpo(c) == return_if(c, ~c.flags.P)

rpe(c) == return_if(c, c.flags.P)

\* RP: tests P, not S.
rp(c) == return_if(c, c.flags.P)

rm(c) == return_if(c, c.flags.S)

-----------------------------------------------------------------------------
(* The opcode table built by the add_instruction decorators.               *)

\* The opcodes no decorator registers.
Unregistered == {\h18, \h20, \h28, \h30, \h38, \hC7, \hCB, \hD9, \hDD, \hED, \hFD}

Registered == (0..255) \ Unregistered

\* The registered opcodes whose handlers this model translates.
Modelled ==
    {\h00, \h76, \h01, \h11, \h21, \h31, \h37, \h3F, \hC3, \hC9, \hCD,
     \h04, \h0C, \h14, \h1C, \h24, \h2C, \h3C,
     \h06, \h0E, \h16, \h1E, \h26, \h2E, \h3E,
     \hC1, \hD1, \hE1, \hC5, \hD5, \hE5, \hF1, \hF5,
     \hCF, \hD7, \hDF, \hE7, \hEF, \hF7, \hFF,
     \hD3, \hDB, \hF3, \hFB,
     \h80, \h81, \h82, \h83, \h84, \h85, \h86, \h87, \hC6,
     \h88, \h89, \h8A, \h8B, \h8C, \h8D, \h8E, \h8F, \hCE,
     \h90, \h91, \h92, \h93, \h94, \h95, \h96, \h97, \hD6,
     \h98, \h99, \h9A, \h9B, \h9C, \h9D, \h9E, \h9F, \hDE,
     \hB8, \hB9, \hBA, \hBB, \hBC, \hBD, \hBE, \hBF, \hFE,
     \h34, \h05, \h0D, \h15, \h1D, \h25, \h2D, \h35, \h3D,
     \hA0, \hA1, \hA2, \hA3, \hA4, \hA5, \hA6, \hA7, \hE6,
     \hA8, \hA9, \hAA, \hAB, \hAC, \hAD, \hAE, \hAF, \hEE,
     \hB0, \hB1, \hB2, \hB3, \hB4, \hB5, \hB6, \hB7, \hF6,
     \h07, \h0F, \h17, \h1F, \h27,
     \h40, \h41, \h42, \h43, \h44, \h45, \h47, \h48, \h49,
     \h4A, \h4B, \h4C, \h4D, \h4F, \h50, \h51, \h52, \h53,
     \h54, \h55, \h57, \h58, \h59, \h5A, \h5B, \h5C, \h5D,
     \h5F, \h60, \h61, \h62, \h63, \h64, \h65, \h67, \h68,
     \h69, \h6A, \h6B, \h6C, \h6D, \h6F, \h78, \h79, \h7A,
     \h7B, \h7C, \h7D, \h7F,
     \hC0, \hC2, \hC4, \hC8, \hCA, \hCC, \hD0, \hD2, \hD4,
     \hD8, \hDA, \hDC, \hE0, \hE2, \hE4, \hE8, \hEA, \hEC,
     \hF0, \hF2, \hF4, \hF8, \hFA, \hFC}

\* InstructionSet.execute: the handler registered for the opcode, applied to the
\* CPU with its registered register arguments; an unregistered opcode raises.
execute(c, opcode) ==
    CASE opcode \notin Registered -> [c EXCEPT !.exception = "Unknown opcode"]
      [] opcode = \h00 -> _no_operation(c)
      [] opcode = \h76 -> _system_halt(c)
      [] opcode = \h01 -> lxi_reg_d16(c, "B", "C")
      [] opcode = \h11 -> lxi_reg_d16(c, "D", "E")
      [] opcode = \h21 -> lxi_reg_d16(c, "H", "L")
      [] opcode = \h31 -> lxi_sp_d16(c)
      [] opcode = \h04 -> inr_reg(c, "B")
      [] opcode = \h0C -> inr_reg(c, "C")
      [] opcode = \h14 -> inr_reg(c, "D")
      [] opcode = \h1C -> inr_reg(c, "E")
      [] opcode = \h24 -> inr_reg(c, "H")
      [] opcode = \h2C -> inr_reg(c, "L")
      [] opcode = \h3C -> inr_reg(c, "A")
      [] opcode = \h06 -> mvi_reg(c, "B")
      [] opcode = \h0E -> mvi_reg(c, "C")
      [] opcode = \h16 -> mvi_reg(c, "D")
      [] opcode = \h1E -> mvi_reg(c, "E")
      [] opcode = \h26 -> mvi_reg(c, "H")
      [] opcode = \h2E -> mvi_reg(c, "L")
      [] opcode = \h3E -> mvi_reg(c, "A")
      [] opcode = \h37 -> set_carry(c)
      [] opcode = \h3F -> cmc(c)
      [] opcode = \hC1 -> pop(c, "B", "C")
      [] opcode = \hD1 -> pop(c, "D", "E")
      [] opcode = \hE1 -> pop(c, "H", "L")
      [] opcode = \hC5 -> push(c, "B", "C")
      [] opcode = \hD5 -> push(c, "D", "E")
      [] opcode = \hE5 -> push(c, "H", "L")
      [] opcode = \hC3 -> jmp_addr(c)
      [] opcode = \hC9 -> ret(c)
      [] opcode = \hCD -> call_addr(c)
      [] opcode = \hCF -> rst_1(c)
      [] opcode = \hD7 -> rst_2(c)
      [] opcode = \hDF -> rst_3(c)
      [] opcode = \hE7 -> rst_4(c)
      [] opcode = \hEF -> rst_5(c)
      [] opcode = \hF7 -> rst_6(c)
      [] opcode = \hFF -> rst_7(c)
      [] opcode = \hD3 -> out_d8(c)
      [] opcode = \hDB -> in_d8(c)
      [] opcode = \hF1 -> pop_psw(c)
      [] opcode = \hF5 -> push_psw(c)
      [] opcode = \hF3 -> di(c)
      [] opcode = \hFB -> ei(c)
      [] opcode = \h80 -> add_reg(c, "B")
      [] opcode = \h81 -> add_reg(c, "C")
      [] opcode = \h82 -> add_reg(c, "D")
      [] opcode = \h83 -> add_reg(c, "E")
      [] opcode = \h84 -> add_reg(c, "H")
      [] opcode = \h85 -> add_reg(c, "L")
      [] opcode = \h87 -> add_reg(c, "A")
      [] opcode = \h86 -> add_m(c)
      [] opcode = \hC6 -> adi_d8(c)
      [] opcode = \h88 -> adc_reg(c, "B")
      [] opcode = \h89 -> adc_reg(c, "C")
      [] opcode = \h8A -> adc_reg(c, "D")
      [] opcode = \h8B -> adc_reg(c, "E")
      [] opcode = \h8C -> adc_reg(c, "H")
      [] opcode = \h8D -> adc_reg(c, "L")
      [] opcode = \h8F -> adc_reg(c, "A")
      [] opcode = \h8E -> adc_m(c)
      [] opcode = \hCE -> aci_d8(c)
      [] opcode = \h90 -> sub_reg(c, "B")
      [] opcode = \h91 -> sub_reg(c, "C")
      [] opcode = \h92 -> sub_reg(c, "D")
      [] opcode = \h93 -> sub_reg(c, "E")
      [] opcode = \h94 -> sub_reg(c, "H")
      [] opcode = \h95 -> sub_reg(c, "L")
      [] opcode = \h97 -> sub_reg(c, "A")
      [] opcode = \h96 -> sub_m(c)
      [] opcode = \hD6 -> sui_d8(c)
      [] opcode = \h98 -> sbb_reg(c, "B")
      [] opcode = \h99 -> sbb_reg(c, "C")
      [] opcode = \h9A -> sbb_reg(c, "D")
      [] opcode = \h9B -> sbb_reg(c, "E")
      [] opcode = \h9C -> sbb_reg(c, "H")
      [] opcode = \h9D -> sbb_reg(c, "L")
      [] opcode = \h9F -> sbb_reg(c, "A")
      [] opcode = \h9E -> sbb_m(c)
      [] opcode = \hDE -> sbi_d8(c)
      [] opcode = \hB8 -> cmp_reg(c, "B")
      [] opcode = \hB9 -> cmp_reg(c, "C")
      [] opcode = \hBA -> cmp_reg(c, "D")
      [] opcode = \hBB -> cmp_reg(c, "E")
      [] opcode = \hBC -> cmp_reg(c, "H")
      [] opcode = \hBD -> cmp_reg(c, "L")
      [] opcode = \hBF -> cmp_reg(c, "A")
      [] opcode = \hBE -> cmp_m(c)
      [] opcode = \hFE -> cpi_d8(c, "A")
      [] opcode = \h34 -> inr_m(c)
      [] opcode = \h05 -> dcr_reg(c, "B")
      [] opcode = \h0D -> dcr_reg(c, "C")
      [] opcode = \h15 -> dcr_reg(c, "D")
      [] opcode = \h1D -> dcr_reg(c, "E")
      [] opcode = \h25 -> dcr_reg(c, "H")
      [] opcode = \h2D -> dcr_reg(c, "L")
      [] opcode = \h3D -> dcr_reg(c, "A")
      [] opcode = \h35 -> dcr_m(c)
      [] opcode = \hA0 -> ana_reg(c, "B")
      [] opcode = \hA1 -> ana_reg(c, "C")
      [] opcode = \hA2 -> ana_reg(c, "D")
      [] opcode = \hA3 -> ana_reg(c, "E")
      [] opcode = \hA4 -> ana_reg(c, "H")
      [] opcode = \hA5 -> ana_reg(c, "L")
      [] opcode = \hA7 -> ana_reg(c, "A")
      [] opcode = \hA6 -> and_memory_to_accumulator(c)
      [] opcode = \hE6 -> ani_d8(c)
      [] opcode = \hA8 -> xra(c, "B")
      [] opcode = \hA9 -> xra(c, "C")
      [] opcode = \hAA -> xra(c, "D")
      [] opcode = \hAB -> xra(c, "E")
      [] opcode = \hAC -> xra(c, "H")
      [] opcode = \hAD -> xra(c, "L")
      [] opcode = \hAF -> xra(c, "A")
      [] opcode = \hAE -> xra_m(c, "A")
      [] opcode = \hEE -> xri_d8(c)
      [] opcode = \hB0 -> ora_reg(c, "B")
      [] opcode = \hB1 -> ora_reg(c, "C")
      [] opcode = \hB2 -> ora_reg(c, "D")
      [] opcode = \hB3 -> ora_reg(c, "E")
      [] opcode = \hB4 -> ora_reg(c, "H")
      [] opcode = \hB5 -> ora_reg(c, "L")
      [] opcode = \hB7 -> ora_reg(c, "A")
      [] opcode = \hB6 -> ora_m(c, "A")
      [] opcode = \hF6 -> ori_d8(c)
      [] opcode = \h07 -> rlc(c)
      [] opcode = \h0F -> rrc(c)
      [] opcode = \h17 -> ral(c)
      [] opcode = \h1F -> rar(c)
      [] opcode = \h27 -> daa(c)
      [] opcode = \h40 -> mov_reg_reg(c, "B", "B")
      [] opcode = \h41 -> mov_reg_reg(c, "C", "B")
      [] opcode = \h42 -> mov_reg_reg(c, "D", "B")
      [] opcode = \h43 -> mov_reg_reg(c, "E", "B")
      [] opcode = \h44 -> mov_reg_reg(c, "H", "B")
      [] opcode = \h45 -> mov_reg_reg(c, "L", "B")
      [] opcode = \h47 -> mov_reg_reg(c, "A", "B")
      [] opcode = \h48 -> mov_reg_reg(c, "B", "C")
      [] opcode = \h49 -> mov_reg_reg(c, "C", "C")
      [] opcode = \h4A -> mov_reg_reg(c, "D", "C")
      [] opcode = \h4B -> mov_reg_reg(c, "E", "C")
      [] opcode = \h4C -> mov_reg_reg(c, "H", "C")
      [] opcode = \h4D -> mov_reg_reg(c, "L", "C")
      [] opcode = \h4F -> mov_reg_reg(c, "A", "C")
      [] opcode = \h50 -> mov_reg_reg(c, "B", "D")
      [] opcode = \h51 -> mov_reg_reg(c, "C", "D")
      [] opcode = \h52 -> mov_reg_reg(c, "D", "D")
      [] opcode = \h53 -> mov_reg_reg(c, "E", "D")
      [] opcode = \h54 -> mov_reg_reg(c, "H", "D")
      [] opcode = \h55 -> mov_reg_reg(c, "L", "D")
      [] opcode = \h57 -> mov_reg_reg(c, "A", "D")
      [] opcode = \h58 -> mov_reg_reg(c, "B", "E")
      [] opcode = \h59 -> mov_reg_reg(c, "C", "E")
      [] opcode = \h5A -> mov_reg_reg(c, "D", "E")
      [] opcode = \h5B -> mov_reg_reg(c, "E", "E")
      [] opcode = \h5C -> mov_reg_reg(c, "H", "E")
      [] opcode = \h5D -> mov_reg_reg(c, "L", "E")
      [] opcode = \h5F -> mov_reg_reg(c, "A", "E")
      [] opcode = \h60 -> mov_reg_reg(c, "B", "H")
      [] opcode = \h61 -> mov_reg_reg(c, "C", "H")
      [] opcode = \h62 -> mov_reg_reg(c, "D", "H")
      [] opcode = \h63 -> mov_reg_reg(c, "E", "H")
      [] opcode = \h64 -> mov_reg_reg(c, "H", "H")
      [] opcode = \h65 -> mov_reg_reg(c, "L", "H")
      [] opcode = \h67 -> mov_reg_reg(c, "A", "H")
      [] opcode = \h68 -> mov_reg_reg(c, "B", "L")
      [] opcode = \h69 -> mov_reg_reg(c, "C", "L")
      [] opcode = \h6A -> mov_reg_reg(c, "D", "L")
      [] opcode = \h6B -> mov_reg_reg(c, "E", "L")
      [] opcode = \h6C -> mov_reg_reg(c, "H", "L")
      [] opcode = \h6D -> mov_reg_reg(c, "L", "L")
      [] opcode = \h6F -> mov_reg_reg(c, "A", "L")
      [] opcode = \h78 -> mov_reg_reg(c, "B", "A")
      [] opcode = \h79 -> mov_reg_reg(c, "C", "A")
      [] opcode = \h7A -> mov_reg_reg(c, "D", "A")
      [] opcode = \h7B -> mov_reg_reg(c, "E", "A")
      [] opcode = \h7C -> mov_reg_reg(c, "H", "A")
      [] opcode = \h7D -> mov_reg_reg(c, "L", "A")
      [] opcode = \h7F -> mov_reg_reg(c, "A", "A")
      [] opcode = \hC0 -> rnz(c)
      [] opcode = \hC2 -> jnz_addr(c)
      [] opcode = \hC4 -> cnz_addr(c)
      [] opcode = \hC8 -> rz(c)
      [] opcode = \hCA -> jz_addr(c)
      [] opcode = \hCC -> cz_addr(c)
      [] opcode = \hD0 -> rnc(c)
      [] opcode = \hD2 -> jnc_addr(c)
      [] opcode = \hD4 -> cnc_addr(c)
      [] opcode = \hD8 -> rc(c)
      [] opcode = \hDA -> jc_addr(c)
      [] opcode = \hDC -> cc_addr(c)
      [] opcode = \hE0 -> rpo(c)
      [] opcode = \hE2 -> jpo_addr(c)
      [] opcode = \hE4 -> cpo_addr(c)
      [] opcode = \hE8 -> rpe(c)
      [] opcode = \hEA -> jpe_addr(c)
      [] opcode = \hEC -> cpe_addr(c)
      [] opcode = \hF0 -> rp(c)
      [] opcode = \hF2 -> jp_addr(c)
      [] opcode = \hF4 -> cp_addr(c)
      [] opcode = \hF8 -> rm(c)
      [] opcode = \hFA -> jm_addr(c)
      [] opcode = \hFC -> cm_addr(c)

\* CPU.execute_instruction: fetch the opcode at PC, then dispatch it.
execute_instruction(c) ==
    LET f == fetch_byte(c)
    IN  execute(f.cpu, f.value)

\* execute_interrupt arming the flag for the handler's own test instead of
\* testing it.
execute_interrupt_armed(c, opcode) ==
    execute([c EXCEPT !.interrupts_enabled = TRUE], opcode)

\* Intel8080.execute_interrupt is called by the scenes but is not among the
\* sources; it follows its documented contract: when interrupts are enabled the
\* flag is cleared and the opcode is dispatched without a fetch, otherwise nothing.
execute_interrupt(c, opcode) ==
    IF c.interrupts_enabled
    THEN execute([c EXCEPT !.interrupts_enabled = FALSE], opcode)
    ELSE c

-----------------------------------------------------------------------------
(* xpire/devices/device.py: the devices' fields are the record `dev`.      *)

\* write_offset without the mask.
Shifter_write_offset_unmasked(d, offset) ==
    [d EXCEPT !.shifter_offset = BitXor(offset, \hFF)]

\* Shifter.write_offset
Shifter_write_offset(d, offset) ==
    [d EXCEPT !.shifter_offset = BitAnd(BitXor(offset, \hFF), \h07)]

\* Shifter.write_value
Shifter_write_value(d, value) ==
    [d EXCEPT !.shifter_value = BitOr(Shr(d.shifter_value, 8), Shl(value, 7))]

\* Shifter.read
Shifter_read(d) == BitAnd(Shr(d.shifter_value, d.shifter_offset), \hFF)

\* DummyDevice.write
DummyDevice_write(d, value) == d

\* P1Controls.write
P1Controls_write(d, value) == [d EXCEPT !.p1 = BitOr(BitOr(d.p1, value), \h08)]

\* P1Controls.reset
P1Controls_reset(d) == [d EXCEPT !.p1 = \h08]

\* The devices as their constructors leave them.
DevInit ==
    [shifter_value |-> 0, shifter_offset |-> 0, p1 |-> 8, p2 |-> 4, dummy_input |-> 143]

\* The bound methods registered as handlers.
WriteHandlers == {"shifter.write_offset", "shifter.write_value", "dummy_device.write"}

ReadHandlers == {"dummy_input.read", "p1_controller.read", "p2_controller.read", "shifter.read"}

\* Calling a registered write handler.
CallWriter(d, handler, value) ==
    CASE handler = "shifter.write_offset" -> Shifter_write_offset(d, value)
      [] handler = "shifter.write_value"  -> Shifter_write_value(d, value)
      [] handler = "dummy_device.write"   -> DummyDevice_write(d, value)

\* Calling a registered read handler (Device.read returns _value).
CallReader(d, handler) ==
    CASE handler = "dummy_input.read"   -> d.dummy_input
      [] handler = "p1_controller.read" -> d.p1
      [] handler = "p2_controller.read" -> d.p2
      [] handler = "shifter.read"       -> Shifter_read(d)

\* register_device keeping the handler a port already has.
register_device_first_wins(b, device_type, port, handler) ==
    IF device_type = "READ"
    THEN [b EXCEPT !.readers = b.readers @@ (port :> handler)]
    ELSE IF device_type = "WRITE"
    THEN [b EXCEPT !.writers = b.writers @@ (port :> handler)]
    ELSE b

\* Bus.register_device
register_device(b, device_type, port, handler) ==
    IF device_type = "READ" THEN [b EXCEPT !.readers = (port :> handler) @@ b.readers]
    ELSE IF device_type = "WRITE" THEN [b EXCEPT !.writers = (port :> handler) @@ b.writers]
    ELSE b

\* Bus.__init__
EmptyBus == [readers |-> <<>>, writers |-> <<>>]

\* The registrations of SpaceInvadersScene.__init__, in its order.
SceneRegistrations ==
    << <<"WRITE", 2, "shifter.write_offset">>, <<"WRITE", 3, "dummy_device.write">>,
       <<"WRITE", 4, "shifter.write_value">>,  <<"WRITE", 5, "dummy_device.write">>,
       <<"WRITE", 6, "dummy_device.write">>,   <<"READ", 0, "dummy_input.read">>,
       <<"READ", 1, "p1_controller.read">>,    <<"READ", 2, "p2_controller.read">>,
       <<"READ", 3, "shifter.read">> >>

RECURSIVE RegisterAll(_, _)
RegisterAll(b, regs) ==
    IF regs = <<>> THEN b
    ELSE RegisterAll(register_device(b, regs[1][1], regs[1][2], regs[1][3]), Tail(regs))

BusInit == RegisterAll(EmptyBus, SceneRegistrations)

\* A write that does nothing when the port has no handler, instead of raising.
Bus_write_silent(b, d, port, value) ==
    IF port \in DOMAIN b.writers
    THEN [dev |-> CallWriter(d, b.writers[port], value), handler |-> b.writers[port],
          error |-> "none"]
    ELSE [dev |-> d, handler |-> "none", error |-> "none"]

\* Bus.write: the handler's effect on the devices, or the exception raised.
Bus_write(b, d, port, value) ==
    IF port \in DOMAIN b.writers
    THEN [dev |-> CallWriter(d, b.writers[port], value), handler |-> b.writers[port],
          error |-> "none"]
    ELSE [dev |-> d, handler |-> "none", error |-> "InvalidWritePort"]

\* Bus.read: the byte the handler returns, or the exception raised.
Bus_read(b, d, port) ==
    IF port \in DOMAIN b.readers
    THEN [result |-> CallReader(d, b.readers[port]), handler |-> b.readers[port],
          error |-> "none"]
    ELSE [result |-> -1, handler |-> "none", error |-> "InvalidReadPort"]

-----------------------------------------------------------------------------
(* The CPU as its constructor leaves it, and the programs it is run on.    *)

\* The longest run of CPU operations a behaviour of Spec holds.
MaxSteps == 8

\* The number of interrupts the host injects in one run of Spec.
MaxInjections == 1

\* GameScene.load_rom: the program's bytes from the load address on.
load_rom(base, program) ==
    [a \in base .. (base + Len(program) - 1) |-> program[a - base + 1]]

NoFlags == [S |-> FALSE, Z |-> FALSE, A |-> FALSE, P |-> FALSE, C |-> FALSE]

\* Intel8080.__init__ / CPU.__init__
PowerOn(memory) ==
    [registers |-> [r \in Registers |-> 0], flags |-> NoFlags, SP |-> 0, PC |-> 0,
     cycles |-> 0, interrupts_enabled |-> FALSE, memory |-> memory,
     exception |-> "none"]

\* A CPU the host has set up before running it, as the tests do.
Prepared(memory, registers, flags, SP, PC, ie) ==
    [PowerOn(memory) EXCEPT !.registers = registers, !.flags = flags, !.SP = SP,
                            !.PC = PC, !.interrupts_enabled = ie]

RegisterInits ==
    { [r \in Registers |-> 0],
      [A |-> \h14, B |-> \h12, C |-> \h34, D |-> \h56, E |-> \h78, H |-> \h9A, L |-> \hBC],
      [A |-> \hFF, B |-> \hFF, C |-> \h00, D |-> \h80, E |-> \h7F, H |-> \h00, L |-> \hFF] }

AllFlags == [FlagNames -> BOOLEAN]

SomeFlags == { NoFlags, [f \in FlagNames |-> TRUE] }

StackInits == { \h0000, \h0001, \h2400, \hFFFE, \hFFFF }

\* PUSH rp ; POP rp, and a push popped into another pair.
StackPrograms ==
    { <<\hC5, \hC1>>, <<\hD5, \hD1>>, <<\hE5, \hE1>>, <<\hC5, \hD1>> }

\* PUSH PSW ; changes of A and of the flags ; POP PSW
PswPrograms ==
    { <<\hF5, \hF1>>, <<\hF5, \h3E, \h20, \hF1>>, <<\hF5, \h37, \hF1>>,
      <<\hF5, \h3F, \h3C, \hF1>>, <<\hF5, \h3E, \hFF, \h3C, \h37, \hF1>> }

\* CALL L at the origin, RET at L.
CallPrograms ==
    { [origin |-> \h0100, memory |-> load_rom(\h0100, <<\hCD, \h34, \h12>>) @@ (\h1234 :> \hC9)],
      [origin |-> \h0000, memory |-> load_rom(\h0000, <<\hCD, \h10, \h00>>) @@ (\h0010 :> \hC9)],
      [origin |-> \h0300, memory |-> load_rom(\h0300, <<\hCD, \h00, \h20>>) @@ (\h2000 :> \hC9)] }

\* Programs run from power-on.
BootPrograms ==
    { <<>>,
      <<\hC3, \hFF, \hFF>>,
      <<\h31, \h00, \h24, \h01, \h34, \h12, \h11, \h78, \h56, \h21, \hBC, \h9A, \hFB, \hF3, \h76>>,
      <<\h3E, \h00, \hD3, \h04, \h3E, \hAB, \hD3, \h04, \h3E, \h01, \hD3, \h02, \hDB, \h03>>,
      <<\hDB, \h01, \hD3, \h03, \h04, \h0C, \h14, \h1C, \h24, \h2C>>,
      <<\h06, \h01, \h0E, \h02, \h16, \h03, \h1E, \h04, \h26, \h05, \h2E, \h06, \hC7>>,
      <<\hFB, \hCF>>, <<\hFB, \hD7>>, <<\hDF, \hE7, \hEF, \hF7>>, <<\hFF, \hFB, \hFF>>,
      <<\hFB, \hDF>>, <<\hFB, \hE7>>, <<\hFB, \hEF>>, <<\hFB, \hF7>>, <<\hCB>> }

\* The RST n opcodes, 0xC7 + 8n.
RstOpcodes == { \hC7 + 8 * n : n \in 0 .. 7 }

StackFamily ==
    { [cpu |-> Prepared(load_rom(0, prog), regs, fl, sp, 0, FALSE), injectable |-> {}] :
        prog \in StackPrograms, regs \in RegisterInits, fl \in SomeFlags, sp \in StackInits }

PswFamily ==
    { [cpu |-> Prepared(load_rom(0, prog), regs, fl, sp, 0, FALSE), injectable |-> {}] :
        prog \in PswPrograms, regs \in RegisterInits, fl \in AllFlags, sp \in {\h2400, \h0001} }

CallFamily ==
    { [cpu |-> Prepared(p.memory, regs, fl, sp, p.origin, FALSE), injectable |-> {}] :
        p \in CallPrograms, regs \in RegisterInits, fl \in SomeFlags, sp \in StackInits }

BootFamily ==
    { [cpu |-> PowerOn(load_rom(0, prog)), injectable |-> {}] : prog \in BootPrograms }

InterruptFamily ==
    { [cpu |-> Prepared(load_rom(pc, <<\hFB, \h00, \hF3>>), regs, fl, sp, pc, ie),
       injectable |-> RstOpcodes] :
        regs \in RegisterInits, fl \in SomeFlags, sp \in {\h2400, \h0001},
        pc \in {\h0000, \h1234}, ie \in BOOLEAN }

Scenarios == StackFamily \cup PswFamily \cup CallFamily \cup BootFamily \cup InterruptFamily

NoIo ==
    [op |-> "none", port |-> 0, value |-> 0, handler |-> "none", result |-> -1,
     error |-> "none", before |-> DevInit, registered |-> 0, given |-> <<>>,
     offset_given |-> <<>>]

SceneIdle == [phase |-> "idle", line |-> 0, frames |-> 0, dropped |-> 0, injections |-> <<>>,
     executed |-> 0, polled |-> FALSE, pressed |-> {}, had_keys |-> FALSE,
     surface |-> {}, rastered |-> {}, steps |-> 0,
     order |-> <<>>, polls |-> 0]

Init ==
    \E s \in Scenarios :
        /\ cpu = s.cpu
        /\ host = [injectable |-> s.injectable, injected |-> 0, registered |-> <<>>]
        /\ bus = BusInit
        /\ dev = DevInit
        /\ scene = SceneIdle
        /\ trace = <<>>
        /\ io = NoIo

\* The host calls cpu.execute_instruction().
ExecuteInstruction ==
    /\ cpu.exception = "none"
    /\ Len(trace) < MaxSteps
    /\ read_memory_byte(cpu, cpu.PC) \in Modelled \cup Unregistered
    /\ cpu' = execute_instruction(cpu)
    /\ trace' = Append(trace, [kind |-> "step", opcode |-> read_memory_byte(cpu, cpu.PC),
                               pre |-> cpu, post |-> cpu', line |-> scene.line])
    /\ UNCHANGED <<bus, dev, scene, host, io>>

\* The host calls cpu.execute_interrupt(opcode).
ExecuteInterrupt(opcode) ==
    /\ cpu.exception = "none"
    /\ Len(trace) < MaxSteps
    /\ host.injected < MaxInjections
    /\ opcode \in host.injectable
    /\ cpu' = execute_interrupt(cpu, opcode)
    /\ host' = [host EXCEPT !.injected = host.injected + 1]
    /\ trace' = Append(trace, [kind |-> "interrupt", opcode |-> opcode, pre |-> cpu,
                               post |-> cpu', line |-> scene.line])
    /\ UNCHANGED <<bus, dev, scene, io>>

Next ==
    \/ ExecuteInstruction
    \/ \E opcode \in RstOpcodes : ExecuteInterrupt(opcode)

Spec == Init /\ [][Next]_vars

-----------------------------------------------------------------------------
(* Properties of the CPU, stated over the history of its operations.       *)

\* The CPU after the i-th recorded operation.
After(i) == trace[i].post

\* The CPU the run started from.
Origin == IF trace = <<>> THEN cpu ELSE trace[1].pre

FromPowerOn == Origin = PowerOn(Origin.memory)

IsStep(i, opcode) == trace[i].kind = "step" /\ trace[i].opcode = opcode

\* The register pairs with their PUSH and POP opcodes.
PairOps ==
    { [push |-> \hC5, pop |-> \hC1, h |-> "B", l |-> "C"],
      [push |-> \hD5, pop |-> \hD1, h |-> "D", l |-> "E"],
      [push |-> \hE5, pop |-> \hE1, h |-> "H", l |-> "L"] }

\* C1: PUSH rp immediately followed by POP rp leaves the high register, the low
\* register and SP of the pair as they were before the PUSH.
C1_PushPopRestores ==
    \A i \in 1 .. (Len(trace) - 1) : \A pair \in PairOps :
        (IsStep(i, pair.push) /\ IsStep(i + 1, pair.pop)) =>
            /\ After(i + 1).registers[pair.h] = trace[i].pre.registers[pair.h]
            /\ After(i + 1).registers[pair.l] = trace[i].pre.registers[pair.l]
            /\ After(i + 1).SP = trace[i].pre.SP

\* C2: CALL L followed by the RET stored at L leaves PC at the address after the
\* CALL (its address plus 3), SP as before the CALL, and the registers and flags
\* unchanged.
C2_CallRetReturns ==
    \A i \in 1 .. (Len(trace) - 1) :
        (IsStep(i, \hCD) /\ IsStep(i + 1, \hC9)) =>
            /\ After(i + 1).PC = trace[i].pre.PC + 3
            /\ After(i + 1).SP = trace[i].pre.SP
            /\ After(i + 1).registers = trace[i].pre.registers
            /\ After(i + 1).flags = trace[i].pre.flags

\* The instructions that change A or the flags and leave the stack alone.
PswChanges == {\h3E, \h37, \h3F, \h3C}

\* C3: PUSH PSW, then any changes of A and of the flags, then POP PSW leaves A,
\* the five flags and SP as they were before the PUSH PSW.
C3_PushPopPswRestores ==
    \A i \in 1 .. Len(trace) : \A j \in (i + 1) .. Len(trace) :
        ( /\ IsStep(i, \hF5) /\ IsStep(j, \hF1)
          /\ \A k \in (i + 1) .. (j - 1) : trace[k].kind = "step" /\ trace[k].opcode \in PswChanges ) =>
            /\ After(j).registers["A"] = trace[i].pre.registers["A"]
            /\ After(j).flags = trace[i].pre.flags
            /\ After(j).SP = trace[i].pre.SP

\* C4: after any sequence of steps from power-on the registers are bytes and SP
\* and PC are 16-bit words; a fetch at PC = 0xFFFF leaves PC = 0.
C4_WordsStayInRange ==
    FromPowerOn =>
        /\ \A r \in Registers : cpu.registers[r] \in 0 .. 255
        /\ cpu.SP \in 0 .. 65535
        /\ cpu.PC \in 0 .. 65535
        /\ \A i \in 1 .. Len(trace) :
              (IsStep(i, \h00) /\ trace[i].pre.PC = \hFFFF) => After(i).PC = 0

\* C5: injecting RST n while interrupts are enabled stores the low byte of PC at
\* SP-2 and the high byte at SP-1, sets SP to SP-2 mod 2^16 and PC to 8n, clears
\* interrupts_enabled and changes no register, flag or other memory byte.
C5_InjectedRstPushesPc ==
    \A i \in 1 .. Len(trace) :
        (trace[i].kind = "interrupt" /\ trace[i].pre.interrupts_enabled) =>
            LET pre == trace[i].pre
                post == After(i)
                n == (trace[i].opcode - \hC7) \div 8
                lo == (pre.SP - 2) % 65536
                hi == (pre.SP - 1) % 65536
            IN  /\ read_memory_byte(post, lo) = pre.PC % 256
                /\ read_memory_byte(post, hi) = pre.PC \div 256
                /\ post.SP = lo
                /\ post.PC = 8 * n
                /\ post.interrupts_enabled = FALSE
                /\ post.registers = pre.registers
                /\ post.flags = pre.flags
                /\ \A a \in (DOMAIN pre.memory \cup DOMAIN post.memory) \ {lo, hi} :
                      read_memory_byte(post, a) = read_memory_byte(pre, a)

\* C9: OUT p hands A to the bus write handler of port p before the next fetch,
\* IN p loads A with what the bus read handler of port p returns, and the program
\* OUT 4 (A=0), OUT 4 (A=0xAB), OUT 2 (A=1), IN 3 leaves A = 0x56.
C9_OutInReachTheBus ==
    \A i \in 1 .. Len(trace) :
        LET pre == trace[i].pre
            port == read_memory_byte(pre, pre.PC + 1)
        IN  /\ (IsStep(i, \hD3) /\ i = Len(trace) /\ port \in DOMAIN bus.writers) =>
                (io.op = "write" /\ io.port = port /\ io.value = pre.registers["A"])
            /\ (IsStep(i, \hDB) /\ i = Len(trace) /\ port \in DOMAIN bus.readers) =>
                cpu.registers["A"] = Bus_read(bus, dev, port).result
            /\ ( /\ IsStep(i, \hDB) /\ port = 3 /\ i = 7 /\ FromPowerOn
                 /\ Origin.memory = load_rom(0, <<\h3E, \h00, \hD3, \h04, \h3E, \hAB, \hD3,
                                                  \h04, \h3E, \h01, \hD3, \h02, \hDB, \h03>>) ) =>
                After(i).registers["A"] = \h56

-----------------------------------------------------------------------------
(* The bus and its devices, driven port by port.                           *)

\* The ports the host tries: the registered ones, an unused one and the last one.
Ports == (0 .. 7) \cup {255}

\* The bytes the host writes.
ByteInputs == {\h00, \h01, \h07, \hAB, \hFF}

\* The last two elements of a sequence.
LastTwo(seq) == IF Len(seq) > 2 THEN SubSeq(seq, Len(seq) - 1, Len(seq)) ELSE seq

InitBus ==
    /\ cpu = PowerOn(<<>>)
    /\ host = [injectable |-> {}, injected |-> 0, registered |-> <<>>]
    /\ bus = BusInit
    /\ dev = DevInit
    /\ scene = SceneIdle
    /\ trace = <<>>
    /\ io = NoIo

\* bus.write(port, value)
BusWrite(port, value) ==
    LET w == Bus_write(bus, dev, port, value)
    IN  /\ dev' = w.dev
        /\ io' = [op |-> "write", port |-> port, value |-> value, handler |-> w.handler,
                  result |-> -1, error |-> w.error, before |-> dev,
                  registered |-> Len(host.registered),
                  given |-> IF w.handler = "shifter.write_value"
                            THEN LastTwo(Append(io.given, value)) ELSE io.given,
                  offset_given |-> IF w.handler = "shifter.write_offset"
                                   THEN <<value>> ELSE io.offset_given]
        /\ UNCHANGED <<cpu, bus, scene, host, trace>>

\* bus.read(port)
BusRead(port) ==
    LET r == Bus_read(bus, dev, port)
    IN  /\ io' = [io EXCEPT !.op = "read", !.port = port, !.value = 0,
                            !.handler = r.handler, !.result = r.result,
                            !.error = r.error, !.before = dev,
                            !.registered = Len(host.registered)]
        /\ UNCHANGED <<cpu, bus, dev, scene, host, trace>>

NextBus ==
    \/ \E port \in Ports, value \in ByteInputs : BusWrite(port, value)
    \/ \E port \in Ports : BusRead(port)

SpecBus == InitBus /\ [][NextBus]_vars

\* The specified shift register: the most recent port-4 byte above the previous one.
SpecValue ==
    LET n == Len(io.given)
    IN  Shl(IF n >= 1 THEN io.given[n] ELSE 0, 8) + (IF n >= 2 THEN io.given[n - 1] ELSE 0)

\* The specified offset: the low three bits of the last port-2 byte.
SpecOffset == IF io.offset_given = <<>> THEN 0 ELSE BitAnd(io.offset_given[1], \h07)

\* C7: after any writes to ports 4 and 2, a read of port 3 returns
\* (value >> (8 - offset)) & 0xFF of the specified 16-bit register, where the
\* offset is 0 until port 2 is written.
C7_ShifterReadsSpecifiedByte ==
    (io.op = "read" /\ io.port = 3) =>
        io.result = BitAnd(Shr(SpecValue, 8 - SpecOffset), \hFF)

\* C8: the shifter's offset is always in 0..7 and its value always fits in 16 bits.
C8_ShifterStateInRange ==
    /\ dev.shifter_offset \in 0 .. 7
    /\ dev.shifter_value \in 0 .. 65535

\* The shifter after 0xFF was shifted in twice and offset 0 was written.
C8_Witness ==
    /\ dev.shifter_value = 32767
    /\ dev.shifter_offset = 7
    /\ io.given = <<\hFF, \hFF>>

\* C10: a read of a port without a read handler raises InvalidReadPort, a write to
\* a port without a write handler raises InvalidWritePort, and then no handler is
\* invoked and the devices are as before; a handler for the other direction on
\* the same port does not count.
C10_MissingHandlerRaises ==
    /\ (io.op = "read" /\ io.port \notin DOMAIN bus.readers) =>
          (io.error = "InvalidReadPort" /\ io.handler = "none" /\ dev = io.before)
    /\ (io.op = "write" /\ io.port \notin DOMAIN bus.writers) =>
          (io.error = "InvalidWritePort" /\ io.handler = "none" /\ dev = io.before)
    /\ (io.op = "read" /\ io.port \in DOMAIN bus.readers) => io.error = "none"
    /\ (io.op = "write" /\ io.port \in DOMAIN bus.writers) => io.error = "none"

\* A write to port 1, which has a read handler only, after the shifter was loaded.
C10_Witness ==
    /\ io.op = "write" /\ io.port = 1 /\ io.error = "InvalidWritePort"
    /\ io.port \in DOMAIN bus.readers
    /\ dev.shifter_value # 0

-----------------------------------------------------------------------------
(* xpire/scenes/space_invaders.py: SpaceInvadersScene.update, step by step. *)

SCREEN_WIDTH == 256

SCREEN_HEIGHT == 224

SCREEN_LINE_SIZE == 32

VIDEO_MEMORY_BASE == 9216

SCREEN_FREQUENCY == 60

CPU_FREQUENCY == 2000000

CYCLES_PER_LINE == (CPU_FREQUENCY \div SCREEN_FREQUENCY) \div SCREEN_HEIGHT

\* The number of frames the engine asks the scene for.
MaxFrames == 2

\* The keys pygame reports as pressed when a frame begins.
Keys == {"c", "RETURN", "SPACE", "LEFT", "RIGHT"}

KeySets == { {}, {"c"}, {"RETURN"}, {"SPACE"}, {"LEFT"}, {"RIGHT"}, Keys }

\* handle_events without the reset of the latch.
handle_events_without_reset(d, pressed) ==
    LET d1 == IF "c" \in pressed THEN P1Controls_write(d, \h01) ELSE d
        d2 == IF "RETURN" \in pressed THEN P1Controls_write(d1, \h04) ELSE d1
        d3 == IF "SPACE" \in pressed THEN P1Controls_write(d2, \h10) ELSE d2
        d4 == IF "LEFT" \in pressed THEN P1Controls_write(d3, \h20) ELSE d3
    IN  IF "RIGHT" \in pressed THEN P1Controls_write(d4, \h40) ELSE d4

\* SpaceInvadersScene.handle_events
handle_events(d, pressed) ==
    LET d0 == P1Controls_reset(d)
        d1 == IF "c" \in pressed THEN P1Controls_write(d0, \h01) ELSE d0
        d2 == IF "RETURN" \in pressed THEN P1Controls_write(d1, \h04) ELSE d1
        d3 == IF "SPACE" \in pressed THEN P1Controls_write(d2, \h10) ELSE d2
        d4 == IF "LEFT" \in pressed THEN P1Controls_write(d3, \h20) ELSE d3
    IN  IF "RIGHT" \in pressed THEN P1Controls_write(d4, \h40) ELSE d4

\* handle_interrupts comparing the line index itself, without the increment.
InjectedAt_unincremented(line_number) ==
    IF line_number = 96 THEN \hCF
    ELSE IF line_number = 224 THEN \hD7
    ELSE -1

\* handle_interrupts with the two opcodes exchanged.
InjectedAt_swapped(line_number) ==
    IF line_number + 1 = 96 THEN \hD7
    ELSE IF line_number + 1 = 224 THEN \hCF
    ELSE -1

\* The opcode SpaceInvadersScene.handle_interrupts passes to execute_interrupt
\* for this line, or -1 when it passes none.
InjectedAt(line_number) ==
    IF line_number + 1 = 96 THEN \hCF
    ELSE IF line_number + 1 = 224 THEN \hD7
    ELSE -1

\* SpaceInvadersScene.handle_interrupts
handle_interrupts(c, line_number) ==
    IF InjectedAt(line_number) = -1 THEN c
    ELSE execute_interrupt(c, InjectedAt(line_number))

\* draw_line with the bits of a byte laid out from the left, most significant
\* first.
draw_line_msb_first(c, surface, line) ==
    surface \cup UNION {
        LET counter == line * SCREEN_LINE_SIZE + n
            value == read_memory_byte(c, VIDEO_MEMORY_BASE + counter)
            x == counter % SCREEN_LINE_SIZE
            y == counter \div SCREEN_LINE_SIZE
        IN  { <<x * 8 + i, y>> : i \in { j \in 0 .. 7 : BitAnd(value, Shl(1, 7 - j)) # 0 } }
        : n \in 0 .. (SCREEN_LINE_SIZE - 1) }

\* SpaceInvadersScene.draw_line: the surface is the set of its pixels that have
\* the ink colour; every set bit i of the line's n-th byte inks (x * 8 + i, y).
draw_line(c, surface, line) ==
    surface \cup UNION {
        LET counter == line * SCREEN_LINE_SIZE + n
            value == read_memory_byte(c, VIDEO_MEMORY_BASE + counter)
            x == counter % SCREEN_LINE_SIZE
            y == counter \div SCREEN_LINE_SIZE
        IN  { <<x * 8 + i, y>> : i \in { j \in 0 .. 7 : BitAnd(value, Shl(1, j)) # 0 } }
        : n \in 0 .. (SCREEN_LINE_SIZE - 1) }

\* SpaceInvadersScene.clear_screen: every pixel gets the background colour.
clear_screen(surface) == {}

\* The non-zero bytes of a line of video memory, by their index from the base.
LineBytes(c, line) ==
    { <<k, read_memory_byte(c, VIDEO_MEMORY_BASE + k)>> :
        k \in { j \in (line * SCREEN_LINE_SIZE) .. (line * SCREEN_LINE_SIZE + SCREEN_LINE_SIZE - 1) :
                   read_memory_byte(c, VIDEO_MEMORY_BASE + j) # 0 } }

\* The history keeps the last MaxSteps operations.
Remember(entry) ==
    IF Len(trace) < MaxSteps THEN Append(trace, entry) ELSE Append(Tail(trace), entry)

\* The programs the scene is run on, loaded at address 0.
FramePrograms ==
    { load_rom(0, <<\hFB, \hC3, \h01, \h00>>),
      load_rom(0, <<\hF3, \hFB, \hC3, \h00, \h00>>),
      load_rom(0, <<\hF3, \h3E, \h00, \hFB, \hC3, \h00, \h00>>),
      load_rom(0, <<\hFB, \hCB>>),
      load_rom(0, <<\h21, \h80, \h30, \h34, \hC3, \h03, \h00>>)
          @@ (\h2400 :> \hA5) @@ (\h241F :> \h80) @@ (\h3FFF :> \h01) @@ (\h3080 :> \hFE) }

InitFrame ==
    \E rom \in FramePrograms :
        /\ cpu = PowerOn(rom)
        /\ host = [injectable |-> {}, injected |-> 0, registered |-> <<>>]
        /\ bus = BusInit
        /\ dev = DevInit
        /\ scene = SceneIdle
        /\ trace = <<>>
        /\ io = NoIo

\* update(): self.handle_events()
HandleEvents(pressed) ==
    /\ scene.phase = "idle"
    /\ scene.frames < MaxFrames
    /\ dev' = handle_events(dev, pressed)
    /\ scene' = [scene EXCEPT !.phase = "clear", !.injections = <<>>, !.executed = 0,
                               !.polled = TRUE, !.pressed = pressed,
                               !.polls = scene.polls + 1,
                               !.had_keys = scene.had_keys \/ scene.pressed # {}]
    /\ UNCHANGED <<cpu, bus, host, trace, io>>

\* update(): self.clear_screen(), then the loop over the lines begins.
ClearScreen ==
    /\ scene.phase = "clear"
    /\ scene' = [scene EXCEPT !.phase = "line", !.line = 0,
                               !.surface = clear_screen(scene.surface), !.rastered = {}]
    /\ UNCHANGED <<cpu, bus, dev, host, trace, io>>

\* update(): self.cpu.cycles = 0 ; self.draw_line(line_number)
DrawLine ==
    /\ scene.phase = "line"
    /\ cpu' = [cpu EXCEPT !.cycles = 0]
    /\ scene' = [scene EXCEPT !.phase = "interrupts", !.order = <<"draw">>,
                               !.surface = draw_line(cpu, scene.surface, scene.line),
                               !.rastered = scene.rastered \cup LineBytes(cpu, scene.line)]
    /\ UNCHANGED <<bus, dev, host, trace, io>>

\* update(): self.handle_interrupts(line_number)
HandleInterrupts ==
    /\ scene.phase = "interrupts"
    /\ cpu' = handle_interrupts(cpu, scene.line)
    /\ trace' = IF InjectedAt(scene.line) = -1 THEN trace
                ELSE Remember([kind |-> "interrupt", opcode |-> InjectedAt(scene.line),
                               pre |-> cpu, post |-> cpu', line |-> scene.line])
    /\ scene' = [scene EXCEPT
                   !.phase = IF cpu'.exception = "none" THEN "run" ELSE "crashed",
                   !.order = Append(scene.order, "interrupts"),
                   !.dropped = IF InjectedAt(scene.line) # -1 /\ ~cpu.interrupts_enabled
                               THEN scene.dropped + 1 ELSE scene.dropped,
                   !.executed = scene.executed + (cpu'.cycles - cpu.cycles),
                   !.injections = IF InjectedAt(scene.line) = -1 THEN scene.injections
                                  ELSE Append(scene.injections,
                                              [line |-> scene.line,
                                               opcode |-> InjectedAt(scene.line)])]
    /\ UNCHANGED <<bus, dev, host, io>>

\* update(): one turn of `while self.cpu.cycles < cycles: execute_instruction()`
RunInstruction ==
    /\ scene.phase = "run"
    /\ cpu.cycles < CYCLES_PER_LINE
    /\ read_memory_byte(cpu, cpu.PC) \in Modelled \cup Unregistered
    /\ cpu' = execute_instruction(cpu)
    /\ trace' = Remember([kind |-> "step", opcode |-> read_memory_byte(cpu, cpu.PC),
                          pre |-> cpu, post |-> cpu', line |-> scene.line])
    /\ scene' = [scene EXCEPT !.phase = IF cpu'.exception = "none" THEN "run" ELSE "crashed",
                               !.order = IF scene.order[Len(scene.order)] = "step"
                                         THEN scene.order ELSE Append(scene.order, "step"),
                               !.executed = scene.executed + (cpu'.cycles - cpu.cycles)]
    /\ UNCHANGED <<bus, dev, host, io>>

\* update(): the while loop ends; the next line, or the frame is returned.
EndLine ==
    /\ scene.phase = "run"
    /\ cpu.cycles >= CYCLES_PER_LINE
    /\ scene' = IF scene.line + 1 < SCREEN_HEIGHT
                THEN [scene EXCEPT !.phase = "line", !.line = scene.line + 1]
                ELSE [scene EXCEPT !.phase = "idle", !.frames = scene.frames + 1, !.polls = 0]
    /\ UNCHANGED <<cpu, bus, dev, host, trace, io>>

NextFrame ==
    \/ \E pressed \in KeySets : HandleEvents(pressed)
    \/ ClearScreen
    \/ DrawLine
    \/ HandleInterrupts
    \/ RunInstruction
    \/ EndLine

SpecFrame == InitFrame /\ [][NextFrame]_vars

\* C6: an interrupt injected at a scanline boundary while interrupts_enabled is
\* false changes nothing of the CPU (PC, SP, registers, flags, memory, cycles),
\* and it is not kept: an EI executed afterwards only sets interrupts_enabled and
\* moves PC to the next instruction.
C6_DisabledInterruptIsDropped ==
    /\ \A i \in 1 .. Len(trace) :
          (trace[i].kind = "interrupt" /\ ~trace[i].pre.interrupts_enabled) =>
              After(i) = trace[i].pre
    /\ scene.dropped > 0 =>
          \A i \in 1 .. Len(trace) :
              IsStep(i, \hFB) =>
                  After(i) = [trace[i].pre EXCEPT !.PC = trace[i].pre.PC + 1,
                                                  !.cycles = trace[i].pre.cycles + 4,
                                                  !.interrupts_enabled = TRUE]

\* An injection at a line boundary found interrupts disabled, and EI has run since.
C6_Witness ==
    /\ scene.dropped > 0
    /\ trace # <<>>
    /\ IsStep(Len(trace), \hFB)
    /\ \E i \in 1 .. (Len(trace) - 1) :
          /\ trace[i].kind = "interrupt"
          /\ ~trace[i].pre.interrupts_enabled
          /\ trace[i].line \in {95, 223}

-----------------------------------------------------------------------------
(* The bus while handlers are being registered on it.                      *)

\* The number of register_device calls in one run of SpecRegister.
MaxRegistrations == 2

\* The device types a caller passes: Bus.DeviceTypes.READ, WRITE, and another value.
DeviceTypes == {"READ", "WRITE", "OTHER"}

\* The ports handlers are registered on, and the handlers offered for each type.
RegisterPorts == {3, 4}

HandlersFor(device_type) ==
    IF device_type = "READ" THEN {"shifter.read", "p1_controller.read"}
    ELSE IF device_type = "WRITE" THEN {"shifter.write_value", "dummy_device.write"}
    ELSE {"dummy_device.write"}

InitRegister ==
    /\ cpu = PowerOn(<<>>)
    /\ host = [injectable |-> {}, injected |-> 0, registered |-> <<>>]
    /\ bus = EmptyBus
    /\ dev = DevInit
    /\ scene = SceneIdle
    /\ trace = <<>>
    /\ io = NoIo

\* bus.register_device(device_type, port, handler)
RegisterDevice(device_type, port, handler) ==
    /\ Len(host.registered) < MaxRegistrations
    /\ bus' = register_device(bus, device_type, port, handler)
    /\ host' = [host EXCEPT !.registered =
                   Append(host.registered,
                          [device_type |-> device_type, port |-> port, handler |-> handler,
                           before |-> bus, after |-> bus'])]
    /\ UNCHANGED <<cpu, dev, scene, trace, io>>

NextRegister ==
    \/ \E device_type \in DeviceTypes, port \in RegisterPorts :
          \E handler \in HandlersFor(device_type) : RegisterDevice(device_type, port, handler)
    \/ \E port \in RegisterPorts, value \in {\h01, \hAB} : BusWrite(port, value)
    \/ \E port \in RegisterPorts : BusRead(port)

SpecRegister == InitRegister /\ [][NextRegister]_vars

\* The positions in the history of the registrations of one type on one port
\* that were made before the last bus operation.
RegistrationsOf(device_type, port) ==
    { i \in 1 .. io.registered :
        host.registered[i].device_type = device_type /\ host.registered[i].port = port }

\* The handler an operation of that type on that port has to reach: the one of
\* the latest such registration, or none.
LatestHandler(device_type, port) ==
    LET at == RegistrationsOf(device_type, port)
    IN  IF at = {} THEN "none"
        ELSE host.registered[CHOOSE i \in at : \A j \in at : j <= i].handler

\* C11: a read reaches exactly the READ handler registered last for its port and
\* a write exactly the WRITE handler registered last; registering again the
\* handler a port already has changes nothing; a registration of one type leaves
\* the map of the other type as it was.
C11_LatestRegistrationWins ==
    /\ io.op = "read" => io.handler = LatestHandler("READ", io.port)
    /\ io.op = "write" => io.handler = LatestHandler("WRITE", io.port)
    /\ \A i \in 1 .. Len(host.registered) :
          LET r == host.registered[i]
          IN  /\ (i > 1 /\ host.registered[i - 1].device_type = r.device_type
                        /\ host.registered[i - 1].port = r.port
                        /\ host.registered[i - 1].handler = r.handler) => r.after = r.before
              /\ r.device_type = "READ" => r.after.writers = r.before.writers
              /\ r.device_type = "WRITE" => r.after.readers = r.before.readers
              /\ r.device_type = "READ" => r.after.readers[r.port] = r.handler
              /\ r.device_type = "WRITE" => r.after.writers[r.port] = r.handler

\* A read of port 3 after two different READ handlers were registered on it.
C11_Witness ==
    /\ Len(host.registered) = 2
    /\ host.registered[1].device_type = "READ" /\ host.registered[1].port = 3
    /\ host.registered[2].device_type = "READ" /\ host.registered[2].port = 3
    /\ host.registered[1].handler = "shifter.read"
    /\ host.registered[2].handler = "p1_controller.read"
    /\ io.op = "read" /\ io.port = 3 /\ io.handler = "p1_controller.read" /\ io.result = 8

-----------------------------------------------------------------------------
(* Properties of the frame loop.                                           *)

\* The scene has passed handle_interrupts of line l in the current frame.
PastInterruptsOf(l) ==
    \/ scene.phase \in {"line", "interrupts", "run"} /\ scene.line > l
    \/ scene.phase = "run" /\ scene.line = l
    \/ scene.phase = "idle" /\ scene.frames > 0

\* The injections of one frame, as a prefix of the expected ones.
InjectionsFollow(expected) ==
    /\ Len(scene.injections) <= Len(expected)
    /\ \A i \in 1 .. Len(scene.injections) : scene.injections[i] = expected[i]

LinesDone ==
    IF scene.phase = "line" THEN scene.line
    ELSE IF scene.phase = "idle" /\ scene.frames > 0 THEN SCREEN_HEIGHT
    ELSE -1

\* C13: the overshoot of a scanline is carried into the next one, so the cycles
\* executed during the first k scanlines of a frame lie in [148k, 148k + 17].
C13_OvershootIsCarried ==
    LinesDone >= 1 =>
        /\ scene.executed >= CYCLES_PER_LINE * LinesDone
        /\ scene.executed <= CYCLES_PER_LINE * LinesDone + 17

\* The latch value the keys pressed in one frame stand for.
LatchOf(pressed) ==
    8 + (IF "c" \in pressed THEN 1 ELSE 0) + (IF "RETURN" \in pressed THEN 4 ELSE 0)
      + (IF "SPACE" \in pressed THEN 16 ELSE 0) + (IF "LEFT" \in pressed THEN 32 ELSE 0)
      + (IF "RIGHT" \in pressed THEN 64 ELSE 0)

\* C14: the P1 latch always has bit 3 set, and once handle_events has run in a
\* frame the latch is 0x08 with exactly the bits of the keys pressed in that
\* frame; no bit of an earlier frame remains.
C14_LatchHoldsThisFramesKeys ==
    /\ (dev.p1 \div 8) % 2 = 1
    /\ scene.polled => dev.p1 = LatchOf(scene.pressed)

\* A later frame with only LEFT pressed, after a frame in which keys were pressed.
C14_Witness ==
    /\ scene.had_keys
    /\ scene.frames = 1
    /\ scene.pressed = {"LEFT"}
    /\ dev.p1 = 40

-----------------------------------------------------------------------------
(* One arithmetic or logical instruction executed on chosen operands.      *)

\* The accumulator and operand values the instructions are run on.
ByteSamples ==
    {\h00, \h01, \h02, \h0E, \h0F, \h10, \h11, \h1F, \h3C, \h55, \h7F, \h80, \h81,
     \hAA, \hAB, \hF0, \hFE, \hFF}

\* The flags before the instruction: each value of C with the others clear or set.
AluFlags ==
    { [f \in FlagNames |-> IF f = "C" THEN carry ELSE others] :
        carry \in BOOLEAN, others \in BOOLEAN }

\* The operand an opcode names in its low three bits.
OperandNames == <<"B", "C", "D", "E", "H", "L", "M", "A">>

\* The opcode groups with a register or memory operand, and the immediate opcodes.
OperandGroups == {\h80, \h88, \h90, \h98, \hA0, \hA8, \hB0, \hB8}

ImmediateOpcodes == {\hC6, \hCE, \hD6, \hDE, \hE6, \hEE, \hF6, \hFE}

\* The instructions on the accumulator alone: RLC, RRC, RAL, RAR, DAA.
AccumulatorOpcodes == {\h07, \h0F, \h17, \h1F, \h27}

\* The accumulator values an opcode is run on: DAA is run on every byte.
AccumulatorsFor(opcode) == IF opcode = \h27 THEN 0 .. 255 ELSE ByteSamples

\* INR and DCR name their one operand in bits 3 to 5 of the opcode.
UnaryOpcodes == { g + 8 * k : g \in {\h04, \h05}, k \in 0 .. 7 }

OperandName(opcode) ==
    IF opcode \in ImmediateOpcodes THEN "d8"
    ELSE IF opcode \in UnaryOpcodes THEN OperandNames[((opcode \div 8) % 8) + 1]
    ELSE OperandNames[(opcode % 8) + 1]

\* The address HL holds when the operand is M: the first byte of video memory.
OperandAddress == 9216

\* The operand values: where the accumulator is the only operand, its value.
OperandsFor(opcode, a) ==
    IF OperandName(opcode) = "A" \/ opcode \in UnaryOpcodes THEN {a} ELSE ByteSamples

\* A CPU about to execute `opcode` with accumulator a and operand b.
AluCpu(opcode, a, b, flags) ==
    LET name == OperandName(opcode)
        regs == [r \in Registers |->
                   IF r = "A" THEN a
                   ELSE IF r = name THEN b
                   ELSE IF r = "H" /\ name = "M" THEN OperandAddress \div 256
                   ELSE IF r = "L" /\ name = "M" THEN OperandAddress % 256
                   ELSE \h5A]
        mem  == IF name = "d8" THEN load_rom(0, <<opcode, b>>)
                ELSE IF name = "M" THEN load_rom(0, <<opcode>>) @@ (OperandAddress :> b)
                ELSE load_rom(0, <<opcode>>)
    IN  Prepared(mem, regs, flags, \h2400, 0, FALSE)

AluOpcodes ==
    { g + k : g \in OperandGroups, k \in 0 .. 7 } \cup ImmediateOpcodes \cup UnaryOpcodes
        \cup AccumulatorOpcodes

InitAlu ==
    \E opcode \in AluOpcodes, flags \in AluFlags :
      \E a \in AccumulatorsFor(opcode) : \E b \in OperandsFor(opcode, a) :
        /\ cpu = AluCpu(opcode, a, b, flags)
        /\ host = [injectable |-> {}, injected |-> 0, registered |-> <<>>]
        /\ bus = BusInit
        /\ dev = DevInit
        /\ scene = SceneIdle
        /\ trace = <<>>
        /\ io = NoIo

\* The host executes the one instruction.
ExecuteOnce ==
    /\ trace = <<>>
    /\ ExecuteInstruction

SpecAlu == InitAlu /\ [][ExecuteOnce]_vars

\* The operand of the i-th recorded instruction, decoded from its opcode.
OperandOf(i) ==
    LET pre == trace[i].pre
        opcode == trace[i].opcode
    IN  IF opcode \in ImmediateOpcodes THEN read_memory_byte(pre, pre.PC + 1)
        ELSE IF opcode % 8 = 6
             THEN read_memory_byte(pre, pre.registers["H"] * 256 + pre.registers["L"])
        ELSE pre.registers[OperandNames[(opcode % 8) + 1]]

\* Z, S and P as the byte stored in A determines them.
EvenParity(byte) ==
    Cardinality({ k \in 0 .. 7 : (byte \div (2 ^ k)) % 2 = 1 }) % 2 = 0

ZspFollow(flags, byte) ==
    /\ flags.Z = (byte = 0)
    /\ flags.S = (byte >= 128)
    /\ flags.P = EvenParity(byte)

AddOpcodes == { \h80 + k : k \in 0 .. 7 } \cup {\hC6}

\* C15: ADD r, ADD M and ADI with accumulator a and operand b store (a + b) mod 256
\* in A and set C = (a + b > 255), AC = (low nibbles sum above 15), and Z, S, P
\* from the stored byte.
C15_AddStoresSumAndFlags ==
    \A i \in 1 .. Len(trace) :
        (trace[i].kind = "step" /\ trace[i].opcode \in AddOpcodes) =>
            LET a == trace[i].pre.registers["A"]
                b == OperandOf(i)
                post == After(i)
            IN  /\ post.registers["A"] = (a + b) % 256
                /\ post.flags.C = (a + b > 255)
                /\ post.flags.A = ((a % 16) + (b % 16) > 15)
                /\ ZspFollow(post.flags, (a + b) % 256)

\* ADD E of 0x81 to 0x80: the sum wraps to 0x01 with carry and without half carry.
C15_Witness ==
    /\ Len(trace) = 1
    /\ trace[1].opcode = \h83
    /\ trace[1].pre.registers["A"] = \h80
    /\ trace[1].pre.registers["E"] = \h81
    /\ cpu.registers["A"] = \h01
    /\ cpu.flags.C /\ ~cpu.flags.A /\ ~cpu.flags.Z /\ ~cpu.flags.S /\ ~cpu.flags.P

AdcOpcodes == { \h88 + k : k \in 0 .. 7 } \cup {\hCE}

\* The carry flag before the i-th recorded instruction, as a number.
CarryIn(i) == IF trace[i].pre.flags.C THEN 1 ELSE 0

\* C16: ADC r, ADC M and ACI with accumulator a, operand b and carry-in cin store
\* (a + b + cin) mod 256 in A and set C = (a + b + cin > 255) and
\* AC = ((a mod 16) + (b mod 16) + cin > 15).
C16_AdcStoresSumAndFlags ==
    \A i \in 1 .. Len(trace) :
        (trace[i].kind = "step" /\ trace[i].opcode \in AdcOpcodes) =>
            LET a == trace[i].pre.registers["A"]
                b == OperandOf(i)
                cin == CarryIn(i)
                post == After(i)
            IN  /\ post.registers["A"] = (a + b + cin) % 256
                /\ post.flags.C = (a + b + cin > 255)
                /\ post.flags.A = ((a % 16) + (b % 16) + cin > 15)

SubOpcodes == { \h90 + k : k \in 0 .. 7 } \cup {\hD6}

SbbOpcodes == { \h98 + k : k \in 0 .. 7 } \cup {\hDE}

\* C17: SUB r, SUB M and SUI store (a - b) mod 256 in A and set C = 1 exactly when
\* b > a; SBB r, SBB M and SBI store (a - b - old_C) mod 256 and set C = 1 exactly
\* when b + old_C > a, the case b = 0xFF with old_C = 1 included.
C17_SubtractStoresDifferenceAndBorrow ==
    \A i \in 1 .. Len(trace) :
        (trace[i].kind = "step" /\ trace[i].opcode \in SubOpcodes \cup SbbOpcodes) =>
            LET a == trace[i].pre.registers["A"]
                b == OperandOf(i)
                old_C == IF trace[i].opcode \in SbbOpcodes THEN CarryIn(i) ELSE 0
                post == After(i)
            IN  /\ post.registers["A"] = (a - b - old_C) % 256
                /\ post.flags.C = (b + old_C > a)

CmpOpcodes == { \hB8 + k : k \in 0 .. 7 } \cup {\hFE}

\* C18: CMP r, CMP M and CPI leave A, every other register and memory unchanged
\* and set Z = 1 exactly when a = b and C = 1 exactly when b > a.
C18_CompareKeepsOperands ==
    \A i \in 1 .. Len(trace) :
        (trace[i].kind = "step" /\ trace[i].opcode \in CmpOpcodes) =>
            LET a == trace[i].pre.registers["A"]
                b == OperandOf(i)
                post == After(i)
            IN  /\ post.registers = trace[i].pre.registers
                /\ post.memory = trace[i].pre.memory
                /\ post.flags.Z = (a = b)
                /\ post.flags.C = (b > a)

\* CMP M of 0x55 against 0x81 in memory: the accumulator keeps 0x55 and C is set.
C18_Witness ==
    /\ Len(trace) = 1
    /\ trace[1].opcode = \hBE
    /\ trace[1].pre.registers["A"] = \h55
    /\ read_memory_byte(cpu, OperandAddress) = \h81
    /\ cpu.registers["A"] = \h55
    /\ cpu.flags.C /\ ~cpu.flags.Z

\* C19: INR r, INR M, DCR r and DCR M never modify the carry flag.
C19_IncrementKeepsCarry ==
    \A i \in 1 .. Len(trace) :
        (trace[i].kind = "step" /\ trace[i].opcode \in UnaryOpcodes) =>
            After(i).flags.C = trace[i].pre.flags.C

\* INR L of 0xFF with the carry clear: L wraps to 0 and the carry is still clear.
C19_Witness ==
    /\ Len(trace) = 1
    /\ trace[1].opcode = \h2C
    /\ trace[1].pre.registers["L"] = \hFF
    /\ ~trace[1].pre.flags.C
    /\ cpu.registers["L"] = 0
    /\ cpu.flags.Z /\ ~cpu.flags.C

AndOpcodes == { \hA0 + k : k \in 0 .. 7 } \cup {\hE6}

XorOpcodes == { \hA8 + k : k \in 0 .. 7 } \cup {\hEE}

OrOpcodes == { \hB0 + k : k \in 0 .. 7 } \cup {\hF6}

\* Whether bit k of a byte is set.
HasBit(byte, k) == (byte \div (2 ^ k)) % 2 = 1

\* The byte whose bit k is the given logical operation on bit k of a and of b.
Bitwise(opcode, a, b) ==
    LET on(k) == IF opcode \in AndOpcodes THEN HasBit(a, k) /\ HasBit(b, k)
                 ELSE IF opcode \in OrOpcodes THEN HasBit(a, k) \/ HasBit(b, k)
                 ELSE HasBit(a, k) # HasBit(b, k)
        w(k) == IF on(k) THEN 2 ^ k ELSE 0
    IN  w(0) + w(1) + w(2) + w(3) + w(4) + w(5) + w(6) + w(7)

\* C20: after ANA, ANI, ORA, ORI, XRA and XRI the carry is clear and A holds the
\* bitwise result, with Z, S and P computed from it.
C20_LogicClearsCarry ==
    \A i \in 1 .. Len(trace) :
        (trace[i].kind = "step" /\ trace[i].opcode \in AndOpcodes \cup XorOpcodes \cup OrOpcodes) =>
            LET result == Bitwise(trace[i].opcode, trace[i].pre.registers["A"], OperandOf(i))
                post == After(i)
            IN  /\ ~post.flags.C
                /\ post.registers["A"] = result
                /\ ZspFollow(post.flags, result)

\* ORI 0x81 on 0x3C with the carry set: A becomes 0xBD and the carry is cleared.
C20_Witness ==
    /\ Len(trace) = 1
    /\ trace[1].opcode = \hF6
    /\ trace[1].pre.registers["A"] = \h3C
    /\ read_memory_byte(cpu, 1) = \h81
    /\ trace[1].pre.flags.C
    /\ cpu.registers["A"] = \hBD
    /\ ~cpu.flags.C /\ cpu.flags.S /\ ~cpu.flags.Z /\ cpu.flags.P

\* C21: after ANA r, ANA M and ANI the auxiliary carry is 1 exactly when bit 3 of
\* the accumulator or of the operand was 1; after ORA, ORI, XRA and XRI it is 0.
C21_LogicAuxiliaryCarry ==
    \A i \in 1 .. Len(trace) :
        (trace[i].kind = "step" /\ trace[i].opcode \in AndOpcodes \cup XorOpcodes \cup OrOpcodes) =>
            After(i).flags.A =
                (/\ trace[i].opcode \in AndOpcodes
                 /\ (HasBit(trace[i].pre.registers["A"], 3) \/ HasBit(OperandOf(i), 3)))

\* C22: RLC sets C to old bit 7 and A to (A<<1 | old bit 7) & 0xFF; RRC sets C to
\* old bit 0 and A to (A>>1) | (old bit 0 << 7); RAL sets A to ((A<<1) | old C) & 0xFF
\* and C to old bit 7; RAR sets A to (A>>1) | (old C << 7) and C to old bit 0; none
\* of them changes S, Z, AC, P or another register.
C22_RotatesThroughCarry ==
    \A i \in 1 .. Len(trace) :
        (trace[i].kind = "step" /\ trace[i].opcode \in {\h07, \h0F, \h17, \h1F}) =>
            LET a      == trace[i].pre.registers["A"]
                old_C  == CarryIn(i)
                bit7   == a \div 128
                bit0   == a % 2
                opcode == trace[i].opcode
                post   == After(i)
            IN  /\ post.registers["A"] =
                       (CASE opcode = \h07 -> ((2 * a) % 256) + bit7
                          [] opcode = \h0F -> (a \div 2) + 128 * bit0
                          [] opcode = \h17 -> ((2 * a) % 256) + old_C
                          [] opcode = \h1F -> (a \div 2) + 128 * old_C)
                /\ post.flags.C = ((IF opcode \in {\h07, \h17} THEN bit7 ELSE bit0) = 1)
                /\ \A f \in {"S", "Z", "A", "P"} : post.flags[f] = trace[i].pre.flags[f]
                /\ \A r \in Registers \ {"A"} : post.registers[r] = trace[i].pre.registers[r]

\* C23: DAA adds 0x06 when the low nibble of A is above 9 or AC is set, and AC
\* becomes the nibble carry of that addition; then it adds 0x60 when the high
\* nibble of the adjusted A is above 9 or C is set, and C becomes the carry out of
\* that addition; S, Z and P are taken from the final A, all reduced mod 256 (so
\* 0xFA adjusts to 0x60 with the carry set).
C23_DaaAdjusts ==
    \A i \in 1 .. Len(trace) :
        (trace[i].kind = "step" /\ trace[i].opcode = \h27) =>
            LET a    == trace[i].pre.registers["A"]
                low  == (a % 16 > 9) \/ trace[i].pre.flags.A
                a1   == IF low THEN a + 6 ELSE a
                high == (a1 \div 16 > 9) \/ trace[i].pre.flags.C
                a2   == IF high THEN a1 + 96 ELSE a1
                post == After(i)
            IN  /\ post.registers["A"] = a2 % 256
                /\ post.flags.A = (IF low THEN (a % 16) + 6 > 15 ELSE trace[i].pre.flags.A)
                /\ post.flags.C = (IF high THEN a2 > 255 ELSE trace[i].pre.flags.C)
                /\ ZspFollow(post.flags, a2 % 256)

\* The ALU opcodes with a register operand, and those with a memory or an
\* immediate operand.
AluGroupOpcodes == { g + k : g \in OperandGroups, k \in 0 .. 7 }

RegisterFormOpcodes == { o \in AluGroupOpcodes : o % 8 # 6 }

MemoryFormOpcodes == { o \in AluGroupOpcodes : o % 8 = 6 }

\* C28: every register-operand ALU instruction (ADD, ADC, SUB, SBB, ANA, XRA, ORA,
\* CMP r) and DAA adds exactly 4 to cycles, and every memory-operand and
\* immediate form adds exactly 7.
C28_AluCycles ==
    \A i \in 1 .. Len(trace) :
        LET opcode == trace[i].opcode
            added  == After(i).cycles - trace[i].pre.cycles
        IN  trace[i].kind = "step" =>
                /\ opcode \in RegisterFormOpcodes \cup {\h27} => added = 4
                /\ opcode \in MemoryFormOpcodes \cup ImmediateOpcodes => added = 7

-----------------------------------------------------------------------------
(* Decimal addition: ADD B followed by DAA on packed decimal operands.     *)

\* The packed decimal byte of a number below 100, and the number of such a byte.
bcd_encode(n) == Shl(BitAnd(n \div 10, \h0F), 4) + BitAnd(n % 10, \h0F)

bcd_decode(n) == (BitAnd(Shr(n, 4), \h0F) * 10) + BitAnd(n, \h0F)

\* The program ADD B; DAA.
AddThenAdjust == <<\h80, \h27>>

InitBcd ==
    \E x \in 0 .. 99, y \in 0 .. 99 :
        /\ cpu = Prepared(load_rom(0, AddThenAdjust),
                          [r \in Registers |-> IF r = "A" THEN bcd_encode(x)
                                               ELSE IF r = "B" THEN bcd_encode(y)
                                               ELSE 0],
                          NoFlags, \h2400, 0, FALSE)
        /\ host = [injectable |-> {}, injected |-> 0, registered |-> <<>>]
        /\ bus = BusInit
        /\ dev = DevInit
        /\ scene = SceneIdle
        /\ trace = <<>>
        /\ io = NoIo

\* The host executes the two instructions of the program.
ExecuteProgram ==
    /\ Len(trace) < Len(AddThenAdjust)
    /\ ExecuteInstruction

SpecBcd == InitBcd /\ [][ExecuteProgram]_vars

\* C24: with A = BCD(x) and B = BCD(y) for x, y in 0..99, ADD B followed by DAA
\* leaves A = BCD((x + y) mod 100) and C = 1 exactly when x + y >= 100.
C24_DecimalAdditionIsCorrect ==
    (Len(trace) = 2 /\ trace[1].opcode = \h80 /\ trace[2].opcode = \h27) =>
        LET x == bcd_decode(trace[1].pre.registers["A"])
            y == bcd_decode(trace[1].pre.registers["B"])
        IN  /\ cpu.registers["A"] = bcd_encode((x + y) % 100)
            /\ cpu.flags.C = (x + y >= 100)

-----------------------------------------------------------------------------
(* One register-to-register move executed on distinguishable registers.    *)

\* The MOV opcodes whose operands are both registers.
MovOpcodes == { o \in \h40 .. \h7F : o % 8 # 6 /\ (o \div 8) % 8 # 6 }

\* Register contents that tell every register from every other.
DistinctRegisters ==
    { [A |-> \h14, B |-> \h12, C |-> \h34, D |-> \h56, E |-> \h78, H |-> \h9A, L |-> \hBC],
      [A |-> \hFF, B |-> \h00, C |-> \h01, D |-> \h80, E |-> \h7F, H |-> \h24, L |-> \hFE] }

InitMov ==
    \E opcode \in MovOpcodes, regs \in DistinctRegisters, flags \in AluFlags,
       PC \in {\h0000, \h1FFF} :
        /\ cpu = Prepared(load_rom(PC, <<opcode>>), regs, flags, \h2400, PC, FALSE)
        /\ host = [injectable |-> {}, injected |-> 0, registered |-> <<>>]
        /\ bus = BusInit
        /\ dev = DevInit
        /\ scene = SceneIdle
        /\ trace = <<>>
        /\ io = NoIo

SpecMov == InitMov /\ [][ExecuteOnce]_vars

\* C25: after MOV r1,r2 with r1 # r2, r1 holds r2's prior value, every other
\* register, the flags, SP and memory are unchanged, PC advanced by 1 and cycles
\* increased by 5.
C25_MovCopiesOneRegister ==
    \A i \in 1 .. Len(trace) :
        LET opcode == trace[i].opcode
            r1   == OperandNames[((opcode \div 8) % 8) + 1]
            r2   == OperandNames[(opcode % 8) + 1]
            pre  == trace[i].pre
            post == After(i)
        IN  (trace[i].kind = "step" /\ opcode \in MovOpcodes /\ r1 # r2) =>
                /\ post.registers = [pre.registers EXCEPT ![r1] = pre.registers[r2]]
                /\ post.flags = pre.flags
                /\ post.SP = pre.SP
                /\ post.memory = pre.memory
                /\ post.PC = pre.PC + 1
                /\ post.cycles = pre.cycles + 5

\* MOV B,C (0x41) moved 0x34 from C into B.
C25_Witness ==
    /\ Len(trace) = 1
    /\ trace[1].opcode = \h41
    /\ trace[1].pre.registers["B"] = \h12
    /\ trace[1].pre.registers["C"] = \h34
    /\ cpu.registers["B"] = \h34
    /\ cpu.registers["C"] = \h34

-----------------------------------------------------------------------------
(* One jump, call, return or restart executed in every flag state.         *)

JumpOpcodes == { \hC2 + 8 * k : k \in 0 .. 7 }

CallOpcodes == { \hC4 + 8 * k : k \in 0 .. 7 }

ReturnOpcodes == { \hC0 + 8 * k : k \in 0 .. 7 }

BranchOpcodes == {\hC3} \cup JumpOpcodes \cup CallOpcodes \cup ReturnOpcodes

\* The operand addresses of the jumps and calls.
BranchTargets == {\h0000, \h0008, \h1234, \hFFFF}

InitBranch ==
    \E opcode \in BranchOpcodes \cup RstOpcodes, flags \in AllFlags, target \in BranchTargets,
       PC \in {\h0000, \h1FF0}, ie \in BOOLEAN :
        /\ cpu = Prepared(load_rom(PC, <<opcode, target % 256, target \div 256>>)
                              @@ load_rom(\h23FE, <<\h78, \h56>>),
                          [r \in Registers |-> \h5A], flags, \h23FE, PC, ie)
        /\ host = [injectable |-> {}, injected |-> 0, registered |-> <<>>]
        /\ bus = BusInit
        /\ dev = DevInit
        /\ scene = SceneIdle
        /\ trace = <<>>
        /\ io = NoIo

SpecBranch == InitBranch /\ [][ExecuteOnce]_vars

\* The condition bits 3 to 5 of a conditional opcode name: NZ, Z, NC, C, PO, PE, P, M.
ConditionHolds(opcode, flags) ==
    CASE (opcode \div 8) % 8 = 0 -> ~flags.Z
      [] (opcode \div 8) % 8 = 1 -> flags.Z
      [] (opcode \div 8) % 8 = 2 -> ~flags.C
      [] (opcode \div 8) % 8 = 3 -> flags.C
      [] (opcode \div 8) % 8 = 4 -> ~flags.P
      [] (opcode \div 8) % 8 = 5 -> flags.P
      [] (opcode \div 8) % 8 = 6 -> ~flags.S
      [] (opcode \div 8) % 8 = 7 -> flags.S

\* The 16-bit operand that follows the opcode of the i-th recorded instruction.
AddressOperand(i) ==
    read_memory_byte(trace[i].pre, trace[i].pre.PC + 1)
        + 256 * read_memory_byte(trace[i].pre, trace[i].pre.PC + 2)

\* C26: JMP addr sets PC to addr; a conditional jump or call whose condition is
\* false leaves PC at the opcode address + 3 and SP and memory unchanged; a
\* conditional return whose condition is false leaves PC at the opcode address + 1
\* and SP unchanged.
C26_UntakenBranchesFallThrough ==
    \A i \in 1 .. Len(trace) :
        LET opcode == trace[i].opcode
            pre    == trace[i].pre
            post   == After(i)
        IN  trace[i].kind = "step" =>
                /\ opcode = \hC3 => post.PC = AddressOperand(i)
                /\ (opcode \in JumpOpcodes \cup CallOpcodes /\ ~ConditionHolds(opcode, pre.flags)) =>
                       /\ post.PC = pre.PC + 3
                       /\ post.SP = pre.SP
                       /\ post.memory = pre.memory
                /\ (opcode \in ReturnOpcodes /\ ~ConditionHolds(opcode, pre.flags)) =>
                       /\ post.PC = pre.PC + 1
                       /\ post.SP = pre.SP

\* C27: every conditional jump adds 10 cycles, taken or not; every conditional
\* call adds 17 when taken and 11 when not; every conditional return adds 11 when
\* taken and 5 when not.
C27_BranchCycles ==
    \A i \in 1 .. Len(trace) :
        LET opcode == trace[i].opcode
            taken  == ConditionHolds(opcode, trace[i].pre.flags)
            added  == After(i).cycles - trace[i].pre.cycles
        IN  trace[i].kind = "step" =>
                /\ opcode \in JumpOpcodes => added = 10
                /\ opcode \in CallOpcodes => added = (IF taken THEN 17 ELSE 11)
                /\ opcode \in ReturnOpcodes => added = (IF taken THEN 11 ELSE 5)

\* C29: a fetched RST n, whatever interrupts_enabled is, pushes the PC that
\* follows the opcode, sets PC to 8n and adds 11 to cycles, for every n in 0..7.
C29_FetchedRstPushesPc ==
    \A i \in 1 .. Len(trace) :
        LET opcode == trace[i].opcode
            pre    == trace[i].pre
            post   == After(i)
            n      == (opcode - \hC7) \div 8
        IN  (trace[i].kind = "step" /\ opcode \in RstOpcodes) =>
                /\ post.exception = "none"
                /\ post.SP = (pre.SP - 2) % 65536
                /\ read_memory_byte(post, post.SP) = (pre.PC + 1) % 256
                /\ read_memory_byte(post, post.SP + 1) = (pre.PC + 1) \div 256
                /\ post.PC = 8 * n
                /\ post.cycles = pre.cycles + 11

\* The opcodes the 8080 documents: all but the twelve unassigned encodings.
Documented8080 ==
    (0 .. 255) \ {\h08, \h10, \h18, \h20, \h28, \h30, \h38, \hCB, \hD9, \hDD, \hED, \hFD}

\* C30: a step aborts with the unknown-opcode error exactly when the fetched byte
\* has no dispatch entry, and every documented 8080 opcode (NOP, HLT and all eight
\* RST n included) has one, so a documented opcode never aborts emulation.
C30_DocumentedOpcodesDispatch ==
    \A i \in 1 .. Len(trace) :
        trace[i].kind = "step" =>
            /\ (After(i).exception = "Unknown opcode") = (trace[i].opcode \notin Registered)
            /\ trace[i].opcode \in Documented8080 => After(i).exception = "none"


-----------------------------------------------------------------------------
(* HLT under CPU.tick, the step the CPU thread's run loop repeats.         *)

\* CPU.tick: execute one instruction; an exception ends the tick, and any
\* exception but SystemHalt is kept in the exception attribute.
tick(c) ==
    LET after == execute_instruction(c)
    IN  IF after.exception = "SystemHalt"
        THEN [after EXCEPT !.exception = c.exception]
        ELSE after

\* HLT followed by further instructions: INR B ; MVI A ; NOP.
HaltPrograms ==
    { <<\h76, \h04, \h76>>, <<\hFB, \h76, \h04, \h3E, \h55>>, <<\h76, \h00, \h04>>,
      <<\h3E, \h11, \h76, \h3E, \h22, \h76>> }

InitHalt ==
    \E prog \in HaltPrograms, regs \in RegisterInits, fl \in SomeFlags, ie \in BOOLEAN :
        /\ cpu = Prepared(load_rom(0, prog), regs, fl, \h2400, 0, ie)
        /\ host = [injectable |-> {\hCF, \hD7}, injected |-> 0, registered |-> <<>>]
        /\ bus = BusInit
        /\ dev = DevInit
        /\ scene = SceneIdle
        /\ trace = <<>>
        /\ io = NoIo

\* The host calls cpu.tick().
Tick ==
    /\ cpu.exception = "none"
    /\ Len(trace) < MaxSteps
    /\ read_memory_byte(cpu, cpu.PC) \in Modelled \cup Unregistered
    /\ cpu' = tick(cpu)
    /\ trace' = Append(trace, [kind |-> "step", opcode |-> read_memory_byte(cpu, cpu.PC),
                               pre |-> cpu, post |-> cpu', line |-> scene.line])
    /\ UNCHANGED <<bus, dev, scene, host, io>>

NextHalt ==
    \/ Tick
    \/ \E opcode \in RstOpcodes : ExecuteInterrupt(opcode)

SpecHalt == InitHalt /\ [][NextHalt]_vars

\* The i-th operation executed HLT.
Halted(i) == trace[i].kind = "step" /\ trace[i].opcode = \h76

\* No interrupt was injected after operation i and before operation j.
NoInterruptBetween(i, j) == \A k \in (i + 1) .. (j - 1) : trace[k].kind # "interrupt"

\* C31: once HLT has executed, every later step leaves PC, SP, the registers,
\* the flags and memory as they were, as long as no interrupt has been injected
\* since the HLT.
C31_HaltedStepsDoNothing ==
    \A i \in 1 .. Len(trace), j \in 1 .. Len(trace) :
        (i < j /\ Halted(i) /\ trace[j].kind = "step" /\ NoInterruptBetween(i, j))
            => /\ trace[j].post.PC = trace[j].pre.PC
               /\ trace[j].post.SP = trace[j].pre.SP
               /\ trace[j].post.registers = trace[j].pre.registers
               /\ trace[j].post.flags = trace[j].pre.flags
               /\ trace[j].post.memory = trace[j].pre.memory


-----------------------------------------------------------------------------
(* The hosts' run loops: main.run and Machine.                             *)

\* The number of screen interrupts a behaviour of SpecMain holds.
MaxScreenInterrupts == 3

\* main.run: screen_frequency = int(clock_frequency / 60)
screen_frequency == 33333

\* main.run: interrupts.extend((207, 215)) taking from the right end.
next_interrupt_from_right(interrupts) ==
    LET extended == interrupts \o <<207, 215>>
    IN  [opcode |-> extended[Len(extended)], interrupts |-> SubSeq(extended, 1, Len(extended) - 1)]

\* main.run: interrupts.extend((207, 215)); interrupt = interrupts.popleft()
next_interrupt(interrupts) ==
    LET extended == interrupts \o <<207, 215>>
    IN  [opcode |-> Head(extended), interrupts |-> Tail(extended)]

\* FlipFlopD.switch is not among the sources; it follows its documented
\* contract: in state A it returns 0xCF and moves to B, in state B it returns
\* 0xD7 and moves to A.
switch(state) ==
    IF state = "A" THEN [opcode |-> \hCF, state |-> "B"]
                   ELSE [opcode |-> \hD7, state |-> "A"]

\* Machine.has_interruption; screen_refresh_interval is 2000000 / 60, a float
\* between 33333 and 33334.
has_interruption(c) == c.interrupts_enabled /\ c.cycles > screen_frequency

\* A loop that enables interrupts for ever, with EI ; RET at the vectors of
\* RST 1 and RST 2:
\*   0000 LXI SP,2400h   0003 EI   0004 PUSH B   0005 POP B   0006 JMP 0003h
LoopProgram ==
    load_rom(0, <<\h31, \h00, \h24, \hFB, \hC5, \hC1, \hC3, \h03, \h00>>)
        @@ load_rom(\h08, <<\hFB, \hC9>>) @@ load_rom(\h10, <<\hFB, \hC9>>)

InitMain ==
    \E loop \in {"main", "machine"}, cycles \in {0, 33330} :
        /\ cpu = [PowerOn(LoopProgram) EXCEPT !.cycles = cycles]
        /\ host = [injectable |-> {}, injected |-> 0, registered |-> <<>>, loop |-> loop,
                   interrupts |-> <<>>, flipflop |-> "A", delivered |-> <<>>]
        /\ bus = BusInit
        /\ dev = DevInit
        /\ scene = SceneIdle
        /\ trace = <<>>
        /\ io = NoIo

\* main.run, one turn of the loop when the frame's cycles are used up: the
\* screen is rendered and the next interrupt of the queue is executed.
RunInterrupt ==
    /\ host.loop = "main"
    /\ cpu.exception = "none"
    /\ cpu.interrupts_enabled /\ cpu.cycles > screen_frequency
    /\ Len(host.delivered) < MaxScreenInterrupts
    /\ LET n == next_interrupt(host.interrupts)
       IN  /\ cpu' = [execute_interrupt(cpu, n.opcode) EXCEPT !.cycles = 0]
           /\ host' = [host EXCEPT !.interrupts = n.interrupts,
                                   !.delivered = Append(host.delivered, n.opcode)]
    /\ UNCHANGED <<bus, dev, scene, trace, io>>

\* main.run, any other turn of the loop: cpu.execute_instruction().
RunStep ==
    /\ host.loop = "main"
    /\ cpu.exception = "none"
    /\ ~(cpu.interrupts_enabled /\ cpu.cycles > screen_frequency)
    /\ cpu' = execute_instruction(cpu)
    /\ UNCHANGED <<bus, dev, scene, host, trace, io>>

\* Machine.process_interruptions followed by cpu.execute_instruction(), with an
\* interruption due: render_screen, execute_screen_interruption, cycles = 0.
ProcessInterruptions ==
    /\ host.loop = "machine"
    /\ cpu.exception = "none"
    /\ has_interruption(cpu)
    /\ Len(host.delivered) < MaxScreenInterrupts
    /\ LET s == switch(host.flipflop)
       IN  /\ cpu' = execute_instruction([execute_interrupt(cpu, s.opcode) EXCEPT !.cycles = 0])
           /\ host' = [host EXCEPT !.flipflop = s.state,
                                   !.delivered = Append(host.delivered, s.opcode)]
    /\ UNCHANGED <<bus, dev, scene, trace, io>>

\* Machine.process_interruptions followed by cpu.execute_instruction(), with no
\* interruption due.
MachineStep ==
    /\ host.loop = "machine"
    /\ cpu.exception = "none"
    /\ ~has_interruption(cpu)
    /\ cpu' = execute_instruction(cpu)
    /\ UNCHANGED <<bus, dev, scene, host, trace, io>>

NextMain ==
    \/ RunInterrupt
    \/ RunStep
    \/ ProcessInterruptions
    \/ MachineStep

SpecMain == InitMain /\ [][NextMain]_vars

\* C32: the opcodes handed to the CPU for successive screen interrupts are 0xCF
\* for the first, third, ... and 0xD7 for the second, fourth, ...
C32_ScreenInterruptsAlternate ==
    (host.loop \in {"main", "machine"}) =>
        \A k \in 1 .. Len(host.delivered) :
            host.delivered[k] = (IF k % 2 = 1 THEN \hCF ELSE \hD7)

\* Three screen interrupts have been delivered by main.run.
C32_Witness ==
    /\ host.loop = "main"
    /\ Len(host.delivered) = 3
    /\ cpu.cycles = 0

\* C40: the queue of pending interrupts of main.run never holds more than two
\* entries.
C40_QueueHoldsAtMostTwo ==
    host.loop = "main" => Len(host.interrupts) <= 2

-----------------------------------------------------------------------------
(* Words in memory: write_memory_word, read_memory_word_bytes and          *)
(* read_memory_word applied to sampled addresses and bytes.                *)

WordAddresses == { \h0000, \h0001, \h23FF, \hFFFE, \hFFFF }

InitWord ==
    \E a \in WordAddresses, high \in ByteSamples, low \in ByteSamples :
        /\ cpu = PowerOn(<<>>)
        /\ host = [injectable |-> {}, injected |-> 0, registered |-> <<>>]
        /\ bus = BusInit
        /\ dev = DevInit
        /\ scene = SceneIdle
        /\ trace = <<>>
        /\ io = [op |-> "none", address |-> a, high |-> high, low |-> low,
                 bytes |-> <<>>, word |-> -1]

\* The host calls cpu.write_memory_word(address, high, low).
WriteWord ==
    /\ io.op = "none"
    /\ cpu' = write_memory_word(cpu, io.address, io.high, io.low)
    /\ io' = [io EXCEPT !.op = "write"]
    /\ UNCHANGED <<bus, dev, scene, host, trace>>

\* The host calls cpu.read_memory_word_bytes(address) and
\* cpu.read_memory_word(address) on the word written.
ReadWord ==
    /\ io.op = "write"
    /\ io' = [io EXCEPT !.op = "read",
                        !.bytes = read_memory_word_bytes(cpu, io.address),
                        !.word = read_memory_word(cpu, io.address)]
    /\ UNCHANGED <<cpu, bus, dev, scene, host, trace>>

NextWord ==
    \/ WriteWord
    \/ ReadWord

SpecWord == InitWord /\ [][NextWord]_vars

\* C33: write_memory_word(a, high, low) leaves low at a and high at
\* (a + 1) mod 2^16; read_memory_word_bytes(a) then returns (high, low) with
\* high the byte at a + 1 and low the byte at a, and read_memory_word(a) returns
\* high * 256 + low.
C33_WordsAreLittleEndian ==
    LET a == io.address
        next == (a + 1) % 65536
    IN  /\ io.op # "none" =>
              /\ read_memory_byte(cpu, a) = io.low
              /\ (next # a => read_memory_byte(cpu, next) = io.high)
        /\ io.op = "read" =>
              /\ io.bytes = <<read_memory_byte(cpu, next), read_memory_byte(cpu, a)>>
              /\ io.word = read_memory_byte(cpu, next) * 256 + read_memory_byte(cpu, a)

-----------------------------------------------------------------------------
(* The picture a frame update leaves on the surface.                       *)

\* C34: when a frame update has returned, for every byte index k of video
\* memory and every bit b, the pixel (8 * (k mod 32) + b, k div 32) of the
\* unrotated surface has the ink colour exactly when bit b of the byte
\* 0x2400 + k was set at the time its scanline k div 32 was drawn, and no pixel
\* outside the 256 x 224 surface is touched.
C34_SurfaceShowsVideoMemory ==
    (scene.phase = "idle" /\ scene.frames >= 1) =>
        /\ \A k \in 0 .. (SCREEN_LINE_SIZE * SCREEN_HEIGHT - 1), b \in 0 .. 7 :
              (<<8 * (k % 32) + b, k \div 32>> \in scene.surface)
                  <=> (\E e \in scene.rastered : e[1] = k /\ HasBit(e[2], b))
        /\ \A p \in scene.surface :
              p[1] \in 0 .. (SCREEN_WIDTH - 1) /\ p[2] \in 0 .. (SCREEN_HEIGHT - 1)

\* A frame has been drawn from video memory holding set bits on its first, its
\* last and a middle line, one of them changed by the program as it ran.
C34_Witness ==
    /\ scene.phase = "idle"
    /\ scene.frames >= 1
    /\ <<0, 0>> \in scene.surface
    /\ <<255, 0>> \in scene.surface
    /\ <<248, 223>> \in scene.surface
    /\ \E e \in scene.rastered : e[1] = 3200 /\ e[2] # \hFE

-----------------------------------------------------------------------------
(* xpire/scenes/xpire.py: the colours of XpireScene, chosen through port 255. *)

\* COLOR_PALETE: Colors.WHITE, Colors.BLACK
COLOR_PALETE == <<"WHITE", "BLACK">>

\* COLOR_PALETE[index] as a Python list answers it: entries are counted from 0,
\* negative indexes count from the end, anything else raises IndexError.
PaletteEntry(index) ==
    IF index \in 0 .. (Len(COLOR_PALETE) - 1) THEN COLOR_PALETE[index + 1]
    ELSE IF index \in (0 - Len(COLOR_PALETE)) .. -1 THEN COLOR_PALETE[Len(COLOR_PALETE) + index + 1]
    ELSE "IndexError"

\* Device.write, for the color_device registered at port 255.
Device_write(d, value) == [d EXCEPT !.color = value]

\* Device.read
Device_read(d) == d.color

\* XpireScene.get_background_color
get_background_color(d) == PaletteEntry(Device_read(d))

\* XpireScene.get_ink_color
get_ink_color(d) == PaletteEntry((Device_read(d) + 1) % Len(COLOR_PALETE))

InitXpire ==
    /\ cpu = PowerOn(<<>>)
    /\ host = [injectable |-> {}, injected |-> 0, registered |-> <<>>]
    /\ bus = register_device(register_device(BusInit, "READ", 255, "color_device.read"),
                             "WRITE", 255, "color_device.write")
    /\ dev = [color |-> 0]
    /\ scene = SceneIdle
    /\ trace = <<>>
    /\ io = [op |-> "none", port |-> 0, value |-> 0, result |-> "none"]

\* The program writes a byte to port 255: bus.write(255, value).
WriteColor(value) ==
    /\ io.op = "none"
    /\ 255 \in DOMAIN bus.writers
    /\ bus.writers[255] = "color_device.write"
    /\ dev' = Device_write(dev, value)
    /\ io' = [io EXCEPT !.op = "write", !.port = 255, !.value = value]
    /\ UNCHANGED <<cpu, bus, scene, host, trace>>

\* The scene asks for its background colour.
GetBackgroundColor ==
    /\ io.op = "write"
    /\ io' = [io EXCEPT !.op = "background", !.result = get_background_color(dev)]
    /\ UNCHANGED <<cpu, bus, dev, scene, host, trace>>

\* The scene asks for its ink colour.
GetInkColor ==
    /\ io.op = "write"
    /\ io' = [io EXCEPT !.op = "ink", !.result = get_ink_color(dev)]
    /\ UNCHANGED <<cpu, bus, dev, scene, host, trace>>

NextXpire ==
    \/ \E value \in 0 .. 255 : WriteColor(value)
    \/ GetBackgroundColor
    \/ GetInkColor

SpecXpire == InitXpire /\ [][NextXpire]_vars

\* C35: whatever byte has been written to port 255, get_background_color and
\* get_ink_color return a colour of the palette and raise nothing.
C35_ColoursAreAlwaysValid ==
    io.op \in {"background", "ink"} => io.result \in {"WHITE", "BLACK"}

-----------------------------------------------------------------------------
(* One scanline of SpaceInvadersScene.update: cycles = 0, then             *)
(* execute_instruction() while cycles < CYCLES_PER_LINE.                   *)

\* The number of instructions of one scanline a behaviour of SpecLine follows.
MaxLineSteps == 40

\* Memory as load_rom leaves it: an empty ROM (all NOP), NOP NOP NOP JMP 0,
\* DAA JMP 0, RST 1 RST 2 JMP 0 with interrupts disabled, and loops of
\* ordinary instructions.
LinePrograms ==
    { <<>>,
      <<\h00, \h00, \h00, \hC3, \h00, \h00>>,
      <<\h27, \hC3, \h00, \h00>>,
      <<\hCF, \hD7, \hC3, \h00, \h00>>,
      <<\h04, \hC3, \h00, \h00>>,
      <<\h3E, \h01, \h80, \h47, \hC3, \h00, \h00>>,
      <<\hFB, \hF3, \hC3, \h00, \h00>> }

InitLine ==
    \E prog \in LinePrograms :
        /\ cpu = PowerOn(load_rom(0, prog))
        /\ host = [injectable |-> {}, injected |-> 0, registered |-> <<>>]
        /\ bus = BusInit
        /\ dev = DevInit
        /\ scene = [SceneIdle EXCEPT !.phase = "run"]
        /\ trace = <<>>
        /\ io = NoIo

\* One turn of `while self.cpu.cycles < cycles: self.cpu.execute_instruction()`.
LineStep ==
    /\ scene.phase = "run"
    /\ cpu.cycles < CYCLES_PER_LINE
    /\ scene.steps < MaxLineSteps
    /\ read_memory_byte(cpu, cpu.PC) \in Modelled \cup Unregistered
    /\ cpu' = execute_instruction(cpu)
    /\ trace' = Remember([kind |-> "step", opcode |-> read_memory_byte(cpu, cpu.PC),
                          pre |-> cpu, post |-> cpu', line |-> scene.line])
    /\ scene' = [scene EXCEPT !.phase = IF cpu'.exception = "none" THEN "run" ELSE "crashed",
                               !.steps = scene.steps + 1]
    /\ UNCHANGED <<bus, dev, host, io>>

\* The loop's test fails: the scanline is over.
LineOver ==
    /\ scene.phase = "run"
    /\ cpu.cycles >= CYCLES_PER_LINE
    /\ scene' = [scene EXCEPT !.phase = "idle"]
    /\ UNCHANGED <<cpu, bus, dev, host, trace, io>>

NextLine ==
    \/ LineStep
    \/ LineOver

SpecLine == InitLine /\ [][NextLine]_vars

\* C36: every instruction executed in a scanline's loop adds at least 4 to
\* cycles, so the loop of a scanline executes at most 37 instructions before
\* cycles reaches CYCLES_PER_LINE and the loop ends.
C36_ScanlineEndsWithin37Instructions ==
    /\ \A i \in 1 .. Len(trace) :
          trace[i].post.exception = "none" => trace[i].post.cycles >= trace[i].pre.cycles + 4
    /\ scene.steps <= 37

-----------------------------------------------------------------------------
(* The order of the steps of one frame update.                             *)

\* C37: within a frame update the input is polled exactly once, before any CPU
\* step; in every scanline the line is drawn first, then its interrupt is
\* injected, then the CPU steps; an interrupt is injected on the CPU exactly as
\* the last completed instruction left it (only cycles reset), never inside an
\* instruction; and the RST 1 of a frame is injected before its RST 2.
C37_FrameStepsAreOrdered ==
    /\ scene.polls <= 1
    /\ (scene.phase # "idle" => scene.polls = 1)
    /\ scene.order \in { <<>>, <<"draw">>, <<"draw", "interrupts">>,
                         <<"draw", "interrupts", "step">> }
    /\ \A i \in 2 .. Len(trace) :
          trace[i].kind = "interrupt" =>
              /\ trace[i - 1].kind = "step"
              /\ trace[i].pre = [trace[i - 1].post EXCEPT !.cycles = 0]
    /\ \A i \in 1 .. Len(trace) :
          trace[i].kind = "step" => trace[i].pre.cycles < CYCLES_PER_LINE
    /\ \A i \in 1 .. Len(scene.injections), j \in 1 .. Len(scene.injections) :
          (i < j) => (scene.injections[i].opcode = \hCF /\ scene.injections[j].opcode = \hD7
                      /\ scene.injections[i].line < scene.injections[j].line)

\* In the second frame the RST 2 of the last scanline has just been injected,
\* after the line was drawn and before the CPU steps.
C37_Witness ==
    /\ scene.frames = 1
    /\ scene.line = SCREEN_HEIGHT - 1
    /\ scene.polls = 1
    /\ Len(scene.injections) = 2
    /\ scene.order = <<"draw", "interrupts">>
    /\ Len(trace) >= 2
    /\ trace[Len(trace)].kind = "interrupt"

-----------------------------------------------------------------------------
(* Complementary conditions and the two forms of DCR.                      *)

\* The i-th recorded instruction, a conditional branch, transferred control: a
\* jump went to its operand, a call pushed a return address, a return popped one.
Transferred(i) ==
    IF trace[i].opcode \in JumpOpcodes
    THEN After(i).PC = AddressOperand(i) /\ After(i).PC # trace[i].pre.PC + 3
    ELSE After(i).SP # trace[i].pre.SP

\* C38: a conditional jump, call or return transfers control exactly when its
\* condition holds, NZ/Z looking at Z only, NC/C at C only, PO/PE at P only (PO
\* when P = 0) and P/M at S only (P when S = 0); so of each complementary pair
\* exactly one transfers control in every flag state.
C38_ComplementaryConditions ==
    \A i \in 1 .. Len(trace) :
        (trace[i].kind = "step"
            /\ trace[i].opcode \in JumpOpcodes \cup CallOpcodes \cup ReturnOpcodes) =>
            (Transferred(i) <=> ConditionHolds(trace[i].opcode, trace[i].pre.flags))

\* DCR r and DCR M: 00rrr101, with rrr = 110 for M.
DcrOpcodes == { \h05 + 8 * k : k \in 0 .. 7 }

\* The byte a DCR opcode names, in a CPU state: a register, or the byte at HL.
DcrOperand(c, opcode) ==
    IF (opcode \div 8) % 8 = 6
    THEN read_memory_byte(c, c.registers["H"] * 256 + c.registers["L"])
    ELSE c.registers[OperandNames[((opcode \div 8) % 8) + 1]]

\* C39: DCR r and DCR M compute the same function of the operand v: the byte
\* stored back is (v - 1) mod 256, S, Z and P are those of that byte, and AC is
\* set exactly when (v & 0xF) + 0xF > 0xF.
C39_DcrFormsAgree ==
    \A i \in 1 .. Len(trace) :
        (trace[i].kind = "step" /\ trace[i].opcode \in DcrOpcodes) =>
            LET v == DcrOperand(trace[i].pre, trace[i].opcode)
                result == DcrOperand(After(i), trace[i].opcode)
            IN  /\ result = (v - 1) % 256
                /\ ZspFollow(After(i).flags, result)
                /\ After(i).flags.A = ((v % 16) + 15 > 15)

====
